---- MODULE Spec2Model ----
(***************************************************************************)
(* Deltaic backup system: state-machine models of                          *)
(*   - the streaming atomic file updater (util.UpdateFile),                *)
(*   - the work scheduler and the run command (sources.Task, run.run),     *)
(*   - the process lock and the commands that use it (util.lockfile),      *)
(*   - the snapshot retention planner (prune.select_snapshots_to_remove),  *)
(*   - the offsite archiver: uploads, the retrieval coordinator and its    *)
(*     bandwidth ledger, archive sets (archivers, archivers.aws),          *)
(*   - the RBD image backup (sources.rbd).                                 *)
(* Each subsystem has its own specification over its own variables; the    *)
(* variables of the other subsystems stay at their idle values.            *)
(***************************************************************************)
EXTENDS Integers, Sequences, FiniteSets, TLC

VARIABLES
    \* ---- UpdateFile ----
    old,        \* destination file when UpdateFile was constructed: [exists, data]
    written,    \* concatenation of every buffer passed to write() so far
    uf,         \* the UpdateFile object, its coroutine and the files it touches
    \* ---- Task and the run command ----
    conf,       \* configuration: units and workers per source, --snapshot
    queue,      \* Task._queue of each source
    success,    \* Task._success of each source
    thread,     \* Task._threads of each source: [pc, unit] per worker
    outcome,    \* per source and unit: how its execution went
    executions, \* per source and unit: how often _execute was called for it
    run,        \* the run command: position, local variables, effects
    \* ---- lockfile and the commands that change the backup volume ----
    mounted,    \* whether the backup filesystem is mounted on settings["root"]
    flock,      \* per lock file: the process holding the exclusive flock, or 0
    proc,       \* per process: the command it runs and where it is
    \* ---- snapshots and cmd_prune ----
    today,      \* date.today(), as a day number
    settings,   \* gc-duplicate-days, gc-daily-weeks, gc-weekly-months
    snapshots,  \* the snapshots that exist (PhysicalSnapshot.list())
    listed,     \* the snapshots the last cmd_prune listed
    remove,     \* what select_snapshots_to_remove returned to it
    pruned,     \* "no", "dry" (a dry run was the last prune) or "yes"
    \* ---- AWSArchiver.upload_archive ----
    vault,      \* ids of the archives that exist in the Glacier vault
    item,       \* SimpleDB item of (set, unit): its aws-aid, 0 when there is none
    up,         \* per upload_archive call: where it is
    \* ---- DownloadState and AWSArchiver.download_archives ----
    archives,   \* archive_list with what the metadata says: [size, found] per name
    state,      \* the DownloadState object
    dl,         \* where the download_archives generator is
    jobs,       \* per name: the retrieval jobs initiated, [offset, len, status]
    yielded,    \* what the generator has yielded so far: [name, ok]
    \* ---- AWSArchiver._request_download_quota and the bandwidth ledger ----
    clock,      \* the time: [hour, phase] with phase "begin", "mid" or "end"
    max_rate,   \* the max_rate every instance passes, in bytes per hour
    ledger,     \* the SimpleDB item "/bandwidth": [serial, bw, max_bw_month]
    inst,       \* per instance: where its _request_download_quota call is
    initiated,  \* per timeslot: what the calls that returned it granted
    \* ---- archive sets, archive_snapshot and the archive run command ----
    psnaps,     \* the physical snapshots that exist (PhysicalSnapshot.list())
    configured, \* the units the configuration names (Source.get_units())
    backed,     \* per snapshot: the units that have a directory in it
    asets,      \* per snapshot: its archive set, [archives, complete]
    arun,       \* the archive run command: position and local variables
    \* ---- RBD image backup ----
    owner,      \* RBD source: the image each source snapshot belongs to
    mirror,     \* RBD: the mirror file of the image and its xattrs
    pendfile,   \* RBD: the <path>.pending file
    rb,         \* RBD: the process running backup_image
    \* ---- Coda: update_dir for one regular-file entry of the dump ----
    coda,       \* the entry, the tar stream, TarMemberFile, where update_dir is
    \* ---- ArchivePacker.unpack ----
    unp,        \* the archive, the local settings, where unpack is
    \* ---- PhysicalSnapshot.list ----
    plist,      \* the logical volumes of the volume group and what list() returned
    \* ---- Coda: sync_backup_volume ----
    csync,      \* the unit root's incremental-ok attribute and the runs of the sync
    \* ---- prune_archives ----
    parch,      \* the archive sets, keep-count, where prune_archives is
    \* ---- AWSArchiver.resync and delete_set ----
    rs          \* the resync and delete_set calls that run beside the uploads

ufVars == <<old, written, uf>>
taskVars == <<conf, queue, success, thread, outcome, executions, run>>

lockVars == <<mounted, flock, proc>>

pruneVars == <<today, settings, snapshots, listed, remove, pruned>>

uploadVars == <<vault, item, up>>

downloadVars == <<archives, state, dl, jobs, yielded>>

quotaVars == <<clock, max_rate, ledger, inst, initiated>>

archiveVars == <<psnaps, configured, backed, asets, arun>>

offsiteVars == <<uploadVars, downloadVars, quotaVars, archiveVars>>

rbdVars == <<owner, mirror, pendfile, rb>>
moreVars == <<csync, parch, rs>>
otherVars == <<coda, unp, plist, moreVars>>

vars == <<old, written, uf, conf, queue, success, thread, outcome, executions, run,
          mounted, flock, proc, today, settings, snapshots, listed, remove, pruned,
          vault, item, up, archives, state, dl, jobs, yielded,
          clock, max_rate, ledger, inst, initiated,
          psnaps, configured, backed, asets, arun, owner, mirror, pendfile, rb,
          coda, unp, plist, csync, parch, rs>>

localVars == <<ufVars, taskVars, lockVars, pruneVars>>

\* no upload_archive call was made
UploadIdle ==
    /\ vault = {}
    /\ item = 0
    /\ up = <<>>

\* download_archives was not called
DownloadIdle ==
    /\ archives = <<>>
    /\ state = [name |-> 0]
    /\ dl = "idle"
    /\ jobs = <<>>
    /\ yielded = <<>>

\* no quota was ever requested
QuotaIdle ==
    /\ clock = [hour |-> 0, phase |-> "mid"]
    /\ max_rate = 0
    /\ ledger = [serial |-> 0, bw |-> <<>>, max_bw_month |-> 0]
    /\ inst = <<>>
    /\ initiated = <<>>

\* archive run was never invoked
ArchiveIdle ==
    /\ psnaps = {}
    /\ configured = {}
    /\ backed = <<>>
    /\ asets = <<>>
    /\ arun = [pc |-> "off"]

\* the offsite archiver is not in use
OffsiteIdle == UploadIdle /\ DownloadIdle /\ QuotaIdle /\ ArchiveIdle

\* no RBD image is backed up
RbdIdle == owner = <<>> /\ mirror = <<>> /\ pendfile = <<>> /\ rb = [pc |-> "off"]

\* no Coda dump is read
CodaIdle == coda = [pc |-> "off"]

\* no archive is unpacked
UnpackIdle == unp = [pc |-> "off"]

\* no snapshot list is taken
ListIdle == plist = [pc |-> "off"]

\* no Coda volume is synchronised
SyncIdle == csync = [pc |-> "off"]

\* prune_archives is not called
PruneArchivesIdle == parch = [pc |-> "off"]

\* no resync and no delete_set is called
ResyncIdle == rs = [pc |-> "off"]

MoreIdle == SyncIdle /\ PruneArchivesIdle /\ ResyncIdle

OtherIdle == CodaIdle /\ UnpackIdle /\ ListIdle /\ MoreIdle

(***************************************************************************)
(* Bounds                                                                  *)
(***************************************************************************)
MaxLen == 4         \* longest old file / new data stream, in bytes
BlockSize == 2      \* block_size argument of UpdateFile
MaxUnits == 2       \* most units a source is configured with
MaxWorkers == 2     \* largest <source>-workers setting
NumProcs == 2       \* processes that invoke commands concurrently
MaxSnaps == 3       \* most snapshots that exist at once
MaxRev == 2         \* highest intra-day revision of a snapshot
MaxUploads == 3     \* most concurrent upload_archive calls for one (set, unit)
MaxArchives == 2    \* most archives in the archive_list of download_archives
MaxSize == 3        \* largest archive size, in bytes
MaxTotalSize == 5   \* largest total_size of one download_archives call, in bytes
MaxHour == 4        \* last timeslot in which the clock runs (the first is 0)
MaxRate == 2        \* largest max_rate, in bytes per hour
MaxDownload == 9    \* largest download_size (state.remaining) of a quota request
DOWNLOAD_QUANTUM == 8   \* AWSArchiver.DOWNLOAD_QUANTUM, in bytes
MaxArchiveUnits == 2    \* most units that are configured or backed up
MaxRbdSnaps == 3        \* most source snapshots ever created of the RBD pool
MaxListRev == 10        \* highest revision of a snapshot that list() finds
MaxListed == 3          \* most snapshot volumes that list() finds
MaxSyncRuns == 3        \* most runs of sync_backup_volume for one unit
MaxSetDays == 3         \* most archive sets that exist (one per day)
MaxKeep == 2            \* largest keep-count of the archiver profile
DUMP_ATTEMPTS == 10     \* coda.DUMP_ATTEMPTS

Byte == {0, 1}

RECURSIVE SeqsUpTo(_, _)
SeqsUpTo(S, n) ==
    IF n = 0 THEN {<<>>}
    ELSE LET shorter == SeqsUpTo(S, n - 1)
         IN  shorter \cup {Append(s, b) : s \in {t \in shorter : Len(t) = n - 1}, b \in S}

Min(a, b) == IF a < b THEN a ELSE b

\* the elements of a sequence
Range(s) == {s[i] : i \in DOMAIN s}

Take(s, n) == SubSeq(s, 1, Min(n, Len(s)))
Drop(s, n) == SubSeq(s, Min(n, Len(s)) + 1, Len(s))

(***************************************************************************)
(* UpdateFile (util.py).  The record uf holds the object and its world:    *)
(*   buf, desired_size, modified   the fields _buf, _desired_size,        *)
(*               modified ("None", "True", "False")                        *)
(*   coroutine   where _start_coroutine is suspended: "scan" (line 196),   *)
(*               "scan_eof" (line 190), "copy" (line 216); "None" once it  *)
(*               returned or was closed by abort()                         *)
(*   oldpos      read position of oldfh                                    *)
(*   oldbuf      the block last read from oldfh                            *)
(*   prefix_len  length of the common prefix found so far                  *)
(*   path        the destination file: [exists, data]                      *)
(*   tmp         the temporary file of write_atomic: [exists, data]        *)
(*   renames     number of renames over the destination                    *)
(*   temps       number of temporary files created (mkstemp)               *)
(*   state       "open", "closed" (close() returned), "aborted",           *)
(*               "error" (the assertion of _send failed), "io_error" (an   *)
(*               OSError left the coroutine and write() or close())        *)
(***************************************************************************)
NoFile == [exists |-> FALSE, data |-> <<>>]

\* no UpdateFile in use
UFIdle ==
    /\ old = NoFile
    /\ written = <<>>
    /\ uf = [state |-> "idle"]

\* oldfh.read(block_size) at position pos
ReadOld(pos) == SubSeq(old.data, pos + 1, Min(pos + BlockSize, Len(old.data)))

\* OpenTemp with the prefix copy left out (the new file starts at the first
\* differing block).
OpenTempNoPrefix(u, databuf) ==
    [u EXCEPT !.coroutine = "copy",
              !.tmp = [exists |-> TRUE, data |-> databuf],
              !.temps = u.temps + 1,
              !.desired_size = BlockSize]

\* write_atomic entered: mkstemp, copy the common prefix from the old file,
\* then the leftover block of the prefix search; suspended in the copy loop.
OpenTemp(u, databuf) ==
    [u EXCEPT !.coroutine = "copy",
              !.tmp = [exists |-> TRUE,
                       data |-> SubSeq(old.data, 1, u.prefix_len) \o databuf],
              !.temps = u.temps + 1,
              !.desired_size = BlockSize]

\* The scanning loop up to its next yield: read the next old block.
ScanNext(u) ==
    LET oldbuf == ReadOld(u.oldpos)
    IN  IF oldbuf = <<>>
        THEN [u EXCEPT !.coroutine = "scan_eof", !.oldbuf = <<>>,
                       !.desired_size = BlockSize]
        ELSE [u EXCEPT !.coroutine = "scan", !.oldbuf = oldbuf,
                       !.oldpos = u.oldpos + Len(oldbuf),
                       !.desired_size = Len(oldbuf)]

\* __init__: the fields, then _start_coroutine up to its first yield.
NewUpdateFile ==
    LET u0 == [buf |-> <<>>, desired_size |-> 0, modified |-> "None",
               coroutine |-> "new", oldpos |-> 0, oldbuf |-> <<>>,
               prefix_len |-> 0, path |-> old, tmp |-> NoFile, renames |-> 0,
               temps |-> 0,
               state |-> "open"]
    IN  IF old.exists THEN ScanNext(u0) ELSE OpenTemp(u0, <<>>)

\* SendScan without the comparison: every block counts as a mismatch
SendScanAlwaysCopy(u, databuf) == OpenTemp(u, databuf)

\* coroutine.send(databuf) while suspended at "databuf = yield len(oldbuf)"
SendScan(u, databuf) ==
    IF u.oldbuf # databuf
    THEN OpenTemp(u, databuf)
    ELSE ScanNext([u EXCEPT !.prefix_len = u.prefix_len + Len(databuf)])

\* SendScanEof without the test of the new data: the end of the old file
\* is taken for the end of the new data.
SendScanEofNoTest(u, databuf) ==
    [u EXCEPT !.coroutine = "None", !.modified = "False"]

\* coroutine.send(databuf) while suspended at the yield of the EOF branch
SendScanEof(u, databuf) ==
    IF databuf = <<>>
    THEN [u EXCEPT !.coroutine = "None", !.modified = "False"]
    ELSE OpenTemp(u, databuf)

\* coroutine.send(databuf) while suspended in the copy loop; on the empty
\* buffer write_atomic exits normally: chmod, rename over the destination.
SendCopy(u, databuf) ==
    IF databuf = <<>>
    THEN [u EXCEPT !.coroutine = "None", !.modified = "True",
                   !.path = [exists |-> TRUE, data |-> u.tmp.data],
                   !.tmp = NoFile,
                   !.renames = u.renames + 1]
    ELSE [u EXCEPT !.tmp.data = u.tmp.data \o databuf]

CoSend(u, databuf) ==
    CASE u.coroutine = "scan"     -> SendScan(u, databuf)
      [] u.coroutine = "scan_eof" -> SendScanEof(u, databuf)
      [] u.coroutine = "copy"     -> SendCopy(u, databuf)

\* _send: cut _desired_size bytes off _buf and send them to the coroutine
Send(u) ==
    IF u.coroutine = "None"
    THEN [u EXCEPT !.state = "error"]
    ELSE CoSend([u EXCEPT !.buf = Drop(u.buf, u.desired_size)],
                Take(u.buf, u.desired_size))

\* write: the loop "while len(self._buf) >= self._desired_size"
RECURSIVE WriteLoop(_)
WriteLoop(u) ==
    IF u.state = "open" /\ Len(u.buf) >= u.desired_size
    THEN WriteLoop(Send(u))
    ELSE u

\* close: the loop "while self._coroutine"
RECURSIVE CloseLoop(_)
CloseLoop(u) ==
    IF u.coroutine # "None" THEN CloseLoop(Send(u)) ELSE u

\* abort with a write_atomic that does not unlink its temporary file
AbortCoroutineNoUnlink(u) == [u EXCEPT !.coroutine = "None"]

\* abort: coroutine.close() raises GeneratorExit at the yield; inside
\* write_atomic the handler unlinks the temporary file.
AbortCoroutine(u) ==
    IF u.coroutine = "None" THEN u
    ELSE [u EXCEPT !.coroutine = "None", !.tmp = NoFile]

\* whether the coroutine, sent the next piece of _buf, opens, writes or
\* renames the temporary file
TouchesFile(u) ==
    /\ u.coroutine \in {"scan", "scan_eof", "copy"}
    /\ LET v == CoSend([u EXCEPT !.buf = Drop(u.buf, u.desired_size)],
                       Take(u.buf, u.desired_size))
       IN  v.tmp # u.tmp \/ v.path # u.path

\* _send when the coroutine's file operation raises OSError: the handler of
\* write_atomic unlinks the temporary file (if mkstemp had made one), the
\* coroutine is finished, and the exception leaves _send with _coroutine
\* still set ("dead")
SendFails(u) ==
    [u EXCEPT !.buf = Drop(u.buf, u.desired_size), !.coroutine = "dead",
              !.tmp = NoFile, !.state = "io_error"]

\* the loop of write (closing = FALSE) or of close (closing = TRUE) when
\* the k-th _send of the call fails; state "none" when there is no k-th
\* _send or it does not touch the file
RECURSIVE LoopFails(_, _, _)
LoopFails(u, k, closing) ==
    IF ~(IF closing THEN u.coroutine # "None" ELSE Len(u.buf) >= u.desired_size)
    THEN [state |-> "none"]
    ELSE IF k = 1
         THEN IF TouchesFile(u) THEN SendFails(u) ELSE [state |-> "none"]
         ELSE LoopFails(Send(u), k - 1, closing)

(***************************************************************************)
(* Task (sources/__init__.py) and the run command (run.py).                *)
(* Two of the registered sources are modelled; each has its own Task with  *)
(* a queue of units and thread_count worker threads.  The threads of a     *)
(* Task run the same code and are told apart by nothing, so thread[s]      *)
(* counts them by position:                                                *)
(*   created     not started yet                                           *)
(*   loop        at the top of the loop of _worker                         *)
(*   returned    left _worker on queue.Empty                               *)
(*   died        left _worker by the re-raised exception                   *)
(* and a thread inside _execute(unit) is the unit whose outcome is         *)
(* "running".  The run command is at                                       *)
(*   "start", "starting" (back_up_units starts the tasks, in order),       *)
(*   "waiting" (back_up_units waits for the tasks, in order),              *)
(*   "snapshot" (at "if snapshot:"), "check" (at "if not success:"),       *)
(*   "exit0", "exit1", "conflict" (LockConflict), "raised" (create failed) *)
(***************************************************************************)
Sources == {"rsync", "rbd"}
SourceOrder == <<"rsync", "rbd">>

Units(s) == 1 .. conf.units[s]

Running(s) == {u \in Units(s) : outcome[s][u] = "running"}

TaskIdle ==
    /\ conf = [units |-> [s \in Sources |-> 0],
               thread_count |-> [s \in Sources |-> 0], snapshot |-> FALSE]
    /\ queue = [s \in Sources |-> <<>>]
    /\ success = [s \in Sources |-> TRUE]
    /\ thread = [s \in Sources |-> [created |-> 0, loop |-> 0, returned |-> 0, died |-> 0]]
    /\ outcome = [s \in Sources |-> <<>>]
    /\ executions = [s \in Sources |-> <<>>]
    /\ run = [pc |-> "idle"]

\* Task.__init__ for every source, as get_backup_task builds them
TaskInit ==
    /\ conf \in [units : [Sources -> 0 .. MaxUnits],
                 thread_count : [Sources -> 1 .. MaxWorkers],
                 snapshot : BOOLEAN]
    /\ queue = [s \in Sources |-> [u \in 1 .. conf.units[s] |-> u]]
    /\ success = [s \in Sources |-> TRUE]
    /\ thread = [s \in Sources |->
                    [created |-> conf.thread_count[s], loop |-> 0,
                     returned |-> 0, died |-> 0]]
    /\ outcome = [s \in Sources |-> [u \in 1 .. conf.units[s] |-> "queued"]]
    /\ executions = [s \in Sources |-> [u \in 1 .. conf.units[s] |-> 0]]
    /\ run = [pc |-> "start", next |-> 1, success |-> TRUE,
              waited |-> [s \in Sources |-> "none"],
              snapshots |-> 0]

\* lockfile(settings, "backup") entered
RunLock ==
    /\ run.pc = "start"
    /\ run' = [run EXCEPT !.pc = "starting"]
    /\ UNCHANGED <<conf, queue, success, thread, outcome, executions>>
    /\ UNCHANGED <<ufVars, lockVars, pruneVars, offsiteVars, rbdVars, otherVars>>

\* lockfile(settings, "backup") raises LockConflict: another run holds it
RunLockConflict ==
    /\ run.pc = "start"
    /\ run' = [run EXCEPT !.pc = "conflict"]
    /\ UNCHANGED <<conf, queue, success, thread, outcome, executions>>
    /\ UNCHANGED <<ufVars, lockVars, pruneVars, offsiteVars, rbdVars, otherVars>>

\* back_up_units, first loop: task.start() starts every thread of the task
TaskStart ==
    /\ run.pc = "starting"
    /\ LET s == SourceOrder[run.next]
       IN  /\ thread' = [thread EXCEPT ![s].created = 0,
                                       ![s].loop = thread[s].created]
           /\ run' = IF run.next = Len(SourceOrder)
                     THEN [run EXCEPT !.pc = "waiting", !.next = 1]
                     ELSE [run EXCEPT !.next = run.next + 1]
    /\ UNCHANGED <<conf, queue, success, outcome, executions>>
    /\ UNCHANGED <<ufVars, lockVars, pruneVars, offsiteVars, rbdVars, otherVars>>

\* _worker: queue.get_nowait() returns a unit and _execute(unit) begins
WorkerGet(s) ==
    /\ thread[s].loop > 0
    /\ queue[s] # <<>>
    /\ LET u == Head(queue[s])
       IN  /\ thread' = [thread EXCEPT ![s].loop = @ - 1]
           /\ outcome' = [outcome EXCEPT ![s][u] = "running"]
           /\ executions' = [executions EXCEPT ![s][u] = @ + 1]
    /\ queue' = [queue EXCEPT ![s] = Tail(queue[s])]
    /\ UNCHANGED <<conf, success, run>>
    /\ UNCHANGED <<ufVars, lockVars, pruneVars, offsiteVars, rbdVars, otherVars>>

\* _worker: queue.get_nowait() raises queue.Empty: return
WorkerReturn(s) ==
    /\ thread[s].loop > 0
    /\ queue[s] = <<>>
    /\ thread' = [thread EXCEPT ![s].loop = @ - 1, ![s].returned = @ + 1]
    /\ UNCHANGED <<conf, queue, success, outcome, executions, run>>
    /\ UNCHANGED <<ufVars, lockVars, pruneVars, offsiteVars, rbdVars, otherVars>>

\* _success as the worker without exception handler sets it: only a
\* unit that returned False clears it
SuccessAfterNoExcept(old_success, how) ==
    IF how = "failed" THEN FALSE ELSE old_success

\* _success after _execute ended as how: "ok" (child exited 0), "failed"
\* (child exited non-zero) or "raised" (an exception left _execute)
SuccessAfter(old_success, how) ==
    IF how = "ok" THEN old_success ELSE FALSE

\* the threads after one of them left _execute as how: the exception is
\* re-raised and ends the thread, otherwise the loop goes on
ThreadsAfter(t, how) ==
    IF how = "raised" THEN [t EXCEPT !.died = @ + 1]
    ELSE [t EXCEPT !.loop = @ + 1]

\* _worker: _execute(u) ends
WorkerFinish(s, u, how) ==
    /\ outcome[s][u] = "running"
    /\ outcome' = [outcome EXCEPT ![s][u] = how]
    /\ success' = [success EXCEPT ![s] = SuccessAfter(success[s], how)]
    /\ thread' = [thread EXCEPT ![s] = ThreadsAfter(thread[s], how)]
    /\ UNCHANGED <<conf, queue, executions, run>>
    /\ UNCHANGED <<ufVars, lockVars, pruneVars, offsiteVars, rbdVars, otherVars>>

\* every thread of the task has ended: the joins of wait() return
Joined(s) ==
    /\ thread[s].created = 0
    /\ thread[s].loop = 0
    /\ Running(s) = {}

\* Task.wait(): every thread joined, _success returned
TaskWait ==
    /\ run.pc = "waiting"
    /\ LET s == SourceOrder[run.next]
       IN  /\ Joined(s)
           /\ run' = [run EXCEPT
                        !.waited[s] = IF success[s] THEN "True" ELSE "False",
                        !.success = run.success /\ success[s],
                        !.pc = IF run.next = Len(SourceOrder) THEN "snapshot" ELSE "waiting",
                        !.next = IF run.next = Len(SourceOrder) THEN 1 ELSE run.next + 1]
    /\ UNCHANGED <<conf, queue, success, thread, outcome, executions>>
    /\ UNCHANGED <<ufVars, lockVars, pruneVars, offsiteVars, rbdVars, otherVars>>

\* run with the snapshot taken only after a successful backup
CreatesSnapshotOnSuccess(r, snapshot) == snapshot /\ r.success

\* run: whether PhysicalSnapshot.create is called after back_up_units
CreatesSnapshot(r, snapshot) == snapshot

\* run: "if snapshot: PhysicalSnapshot.create(...)"; created is FALSE when
\* create raises
RunSnapshot(created) ==
    /\ run.pc = "snapshot"
    /\ IF CreatesSnapshot(run, conf.snapshot)
       THEN IF created
            THEN run' = [run EXCEPT !.pc = "check", !.snapshots = run.snapshots + 1]
            ELSE run' = [run EXCEPT !.pc = "raised"]
       ELSE created /\ run' = [run EXCEPT !.pc = "check"]
    /\ UNCHANGED <<conf, queue, success, thread, outcome, executions>>
    /\ UNCHANGED <<ufVars, lockVars, pruneVars, offsiteVars, rbdVars, otherVars>>

\* run: "if not success: sys.exit(1)"
RunExit ==
    /\ run.pc = "check"
    /\ run' = [run EXCEPT !.pc = IF run.success THEN "exit0" ELSE "exit1"]
    /\ UNCHANGED <<conf, queue, success, thread, outcome, executions>>
    /\ UNCHANGED <<ufVars, lockVars, pruneVars, offsiteVars, rbdVars, otherVars>>

RunNext ==
    \/ RunLock
    \/ RunLockConflict
    \/ TaskStart
    \/ \E s \in Sources : WorkerGet(s)
    \/ \E s \in Sources : WorkerReturn(s)
    \/ \E s \in Sources : \E u \in Units(s) :
          \E how \in {"ok", "failed", "raised"} : WorkerFinish(s, u, how)
    \/ TaskWait
    \/ \E created \in BOOLEAN : RunSnapshot(created)
    \/ RunExit

(***************************************************************************)
(* lockfile (util.py) and the commands run (run.py), archive run           *)
(* (archivers/__init__.py) and prune (prune.py), each invoked by a         *)
(* process of its own.  A process is at                                    *)
(*   "idle"      no command running                                        *)
(*   "list"      archive run, prune: reading the snapshot list             *)
(*   "lock"      run, archive run: about to enter lockfile(settings, name) *)
(*   "work"      run: back_up_units and the snapshot;                      *)
(*               archive run: archive_snapshot (inside the lock context)   *)
(*   "remove"    prune: removing the selected snapshots                    *)
(*   "logs"      prune: prune_logs                                         *)
(* and a command ends as "done", "failed" (an exception or sys.exit left   *)
(* the body), "conflict" (LockConflict) or "oserror" (not mounted).        *)
(***************************************************************************)
Procs == 1 .. NumProcs
Commands == {"run", "archive", "prune"}
LockNames == {"backup", "archive"}

\* the name a command passes to lockfile; "" for a command that takes no lock
LockName(cmd) ==
    CASE cmd = "run"     -> "backup"
      [] cmd = "archive" -> "archive"
      [] cmd = "prune"   -> ""

\* the first position of a command
FirstPc(cmd) ==
    CASE cmd = "run"     -> "lock"
      [] cmd = "archive" -> "list"
      [] cmd = "prune"   -> "list"

\* the process is changing the backup volume, its snapshots or the archive
Mutating(p) == proc[p].pc \in {"work", "remove", "logs"}

LockIdle ==
    /\ mounted = TRUE
    /\ flock = [n \in LockNames |-> 0]
    /\ proc = [p \in Procs |-> [cmd |-> "", pc |-> "off"]]

LockInit ==
    /\ mounted \in BOOLEAN
    /\ flock = [n \in LockNames |-> 0]
    /\ proc = [p \in Procs |-> [cmd |-> "", pc |-> "idle"]]

\* a process starts a command
Invoke(p, cmd) ==
    /\ proc[p].pc \in {"idle", "done", "failed", "interrupted", "conflict", "oserror"}
    /\ proc' = [proc EXCEPT ![p] = [cmd |-> cmd, pc |-> FirstPc(cmd)]]
    /\ UNCHANGED <<mounted, flock>>
    /\ UNCHANGED <<ufVars, taskVars, pruneVars, offsiteVars, rbdVars, otherVars>>

\* archive run: the snapshot is chosen from PhysicalSnapshot.list() or the
\* archive sets, before the lock is taken
ArchiveList(p) ==
    /\ proc[p].cmd = "archive" /\ proc[p].pc = "list"
    /\ proc' = [proc EXCEPT ![p].pc = "lock"]
    /\ UNCHANGED <<mounted, flock>>
    /\ UNCHANGED <<ufVars, taskVars, pruneVars, offsiteVars, rbdVars, otherVars>>

\* lockfile as if flock always succeeded
AfterFlockIgnored(holder) == "work"

\* lockfile: where the caller is after flock(LOCK_EX | LOCK_NB) on a lock
\* file whose exclusive lock is held by holder (0: nobody)
AfterFlock(holder) == IF holder = 0 THEN "work" ELSE "conflict"

\* lockfile(settings, name) up to its yield: the mount test, the open of
\* the lock file, the flock; a refused flock closes the file again
LockEnter(p) ==
    /\ proc[p].pc = "lock"
    /\ LET name == LockName(proc[p].cmd)
       IN  IF ~mounted
           THEN /\ proc' = [proc EXCEPT ![p].pc = "oserror"]
                /\ flock' = flock
           ELSE /\ proc' = [proc EXCEPT ![p].pc = AfterFlock(flock[name])]
                /\ flock' = IF flock[name] = 0 THEN [flock EXCEPT ![name] = p] ELSE flock
    /\ UNCHANGED mounted
    /\ UNCHANGED <<ufVars, taskVars, pruneVars, offsiteVars, rbdVars, otherVars>>

\* a lockfile that closes the lock file only when the body ends normally
CloseLockFileIfNormal(f, p, how) ==
    IF how = "done" THEN [n \in LockNames |-> IF f[n] = p THEN 0 ELSE f[n]] ELSE f

\* lockfile: the end of "with open(lock_file, "w") as lock", reached from
\* the yield normally or by the exception thrown into the generator: the
\* file is closed and the flock of p dropped
CloseLockFile(f, p, how) == [n \in LockNames |-> IF f[n] = p THEN 0 ELSE f[n]]

\* the body of the lock context ends: normally ("done"), by an exception
\* such as sys.exit(1) ("failed") or by KeyboardInterrupt ("interrupted")
LockLeave(p, how) ==
    /\ proc[p].pc = "work"
    /\ proc' = [proc EXCEPT ![p].pc = how]
    /\ flock' = CloseLockFile(flock, p, how)
    /\ UNCHANGED mounted
    /\ UNCHANGED <<ufVars, taskVars, pruneVars, offsiteVars, rbdVars, otherVars>>

\* cmd_prune: PhysicalSnapshot.list() and select_snapshots_to_remove
PruneList(p) ==
    /\ proc[p].cmd = "prune" /\ proc[p].pc = "list"
    /\ proc' = [proc EXCEPT ![p].pc = "remove"]
    /\ UNCHANGED <<mounted, flock>>
    /\ UNCHANGED <<ufVars, taskVars, pruneVars, offsiteVars, rbdVars, otherVars>>

\* cmd_prune: the loop of cur.remove(); lvremove may fail
PruneRemove(p, how) ==
    /\ proc[p].pc = "remove"
    /\ proc' = [proc EXCEPT ![p].pc = how]
    /\ UNCHANGED <<mounted, flock>>
    /\ UNCHANGED <<ufVars, taskVars, pruneVars, offsiteVars, rbdVars, otherVars>>

\* cmd_prune: prune_logs
PruneLogs(p) ==
    /\ proc[p].pc = "logs"
    /\ proc' = [proc EXCEPT ![p].pc = "done"]
    /\ UNCHANGED <<mounted, flock>>
    /\ UNCHANGED <<ufVars, taskVars, pruneVars, offsiteVars, rbdVars, otherVars>>

LockNext ==
    \/ \E p \in Procs : \E cmd \in Commands : Invoke(p, cmd)
    \/ \E p \in Procs : ArchiveList(p)
    \/ \E p \in Procs : LockEnter(p)
    \/ \E p \in Procs : \E how \in {"done", "failed", "interrupted"} : LockLeave(p, how)
    \/ \E p \in Procs : PruneList(p)
    \/ \E p \in Procs : \E how \in {"logs", "failed"} : PruneRemove(p, how)
    \/ \E p \in Procs : PruneLogs(p)

(***************************************************************************)
(* Snapshots (storage.py) and the retention planner (prune.py).            *)
(* A date is a day number; day 0 is Monday 2014-12-29, the first day of    *)
(* ISO year 2015.  A snapshot is the record Snapshot.__init__ builds from  *)
(* the name YYYYMMDD-N.                                                    *)
(***************************************************************************)
\* the number of ISO weeks of an ISO year
WeeksInYear(y) == IF y \in {2015, 2020, 2026} THEN 53 ELSE 52

\* date.isocalendar(): ISO year, ISO week (1..53), ISO weekday (1..7)
RECURSIVE IsoFrom(_, _)
IsoFrom(y, d) ==
    IF d < 7 * WeeksInYear(y)
    THEN [year |-> y, week |-> (d \div 7) + 1, day |-> (d % 7) + 1]
    ELSE IsoFrom(y + 1, d - 7 * WeeksInYear(y))

isocalendar(d) == IsoFrom(2015, d)

\* Snapshot.__init__
Snapshot(d, revision) ==
    LET iso == isocalendar(d)
    IN  [date |-> d, revision |-> revision,
         year |-> iso.year, week |-> iso.week, day |-> iso.day,
         month |-> ((iso.week - 1) \div 4) + 1]

None == [date |-> -1, revision |-> 0, year |-> 0, week |-> 0, day |-> 0, month |-> 0]

\* Snapshot.__cmp__: negative, zero or positive
Cmp(a, b) ==
    IF a.date < b.date THEN -1
    ELSE IF a.date > b.date THEN 1
    ELSE a.revision - b.revision

\* sorted(S): ascending by __cmp__
RECURSIVE Sorted(_)
Sorted(S) ==
    IF S = {} THEN <<>>
    ELSE LET m == CHOOSE x \in S : \A y \in S : Cmp(x, y) <= 0
         IN  <<m>> \o Sorted(S \ {m})

RECURSIVE Reverse(_)
Reverse(q) == IF q = <<>> THEN <<>> ELSE Append(Reverse(Tail(q)), Head(q))

\* the first loop without the exception for recent backups
RECURSIVE FirstFilterNoRecent(_, _, _, _, _)
FirstFilterNoRecent(desc, i, prev, filtered, duplicate_thresh) ==
    IF i > Len(desc) THEN filtered
    ELSE LET cur == desc[i]
         IN  FirstFilterNoRecent(desc, i + 1, cur,
                 IF prev = None \/ prev.date # cur.date
                 THEN <<cur>> \o filtered
                 ELSE filtered,
                 duplicate_thresh)

\* select_snapshots_to_remove, first loop, from element i of the snapshots
\* sorted newest first: all but the last backup per day go, except recent
\* ones; prev is the element before, kept or not
RECURSIVE FirstFilter(_, _, _, _, _)
FirstFilter(desc, i, prev, filtered, duplicate_thresh) ==
    IF i > Len(desc) THEN filtered
    ELSE LET cur == desc[i]
         IN  FirstFilter(desc, i + 1, cur,
                 IF prev = None \/ prev.date # cur.date \/ cur.date > duplicate_thresh
                 THEN <<cur>> \o filtered
                 ELSE filtered,
                 duplicate_thresh)

\* keep() without the daily tier
keepNoDaily(prev, cur, daily_thresh, weekly_thresh) ==
    IF prev = None THEN TRUE
    ELSE IF prev.date = cur.date THEN TRUE
    ELSE IF cur.date > weekly_thresh /\ (prev.year # cur.year \/ prev.week # cur.week)
         THEN TRUE
    ELSE IF prev.month # cur.month THEN TRUE
    ELSE FALSE

\* keep() without the rule for the oldest backup: the first backup is
\* judged like one that follows a backup of an earlier date, week and month
keepNoAnchor(prev, cur, daily_thresh, weekly_thresh) ==
    IF prev = None THEN cur.date > weekly_thresh
    ELSE IF prev.date = cur.date THEN TRUE
    ELSE IF cur.date > daily_thresh /\ prev.date # cur.date THEN TRUE
    ELSE IF cur.date > weekly_thresh /\ (prev.year # cur.year \/ prev.week # cur.week)
         THEN TRUE
    ELSE IF prev.month # cur.month THEN TRUE
    ELSE FALSE

\* select_snapshots_to_remove: keep(prev, cur)
keep(prev, cur, daily_thresh, weekly_thresh) ==
    IF prev = None THEN TRUE
    ELSE IF prev.date = cur.date THEN TRUE
    ELSE IF cur.date > daily_thresh /\ prev.date # cur.date THEN TRUE
    ELSE IF cur.date > weekly_thresh /\ (prev.year # cur.year \/ prev.week # cur.week)
         THEN TRUE
    ELSE IF prev.month # cur.month THEN TRUE
    ELSE FALSE

\* select_snapshots_to_remove, second loop, from element i of filtered
RECURSIVE SecondFilter(_, _, _, _, _, _)
SecondFilter(filtered, i, prev, rem, daily_thresh, weekly_thresh) ==
    IF i > Len(filtered) THEN rem
    ELSE LET cur == filtered[i]
         IN  SecondFilter(filtered, i + 1, cur,
                 IF keep(prev, cur, daily_thresh, weekly_thresh)
                 THEN rem \ {cur} ELSE rem,
                 daily_thresh, weekly_thresh)

DuplicateThresh(conf_settings, now) == now - conf_settings.duplicate_days
DailyThresh(conf_settings, now) == now - conf_settings.daily_weeks * 7
WeeklyThresh(conf_settings, now) == now - conf_settings.weekly_months * 28

select_snapshots_to_remove(conf_settings, snaps, now) ==
    LET filtered == FirstFilter(Reverse(Sorted(snaps)), 1, None, <<>>,
                                DuplicateThresh(conf_settings, now))
    IN  SecondFilter(filtered, 1, None, snaps,
                     DailyThresh(conf_settings, now),
                     WeeklyThresh(conf_settings, now))

\* The inputs: the days snapshots were taken on, as ages in days before a
\* current date, and the retention settings (the defaults 14/8/12 among them)
Todays == {450, 453}
Ages == {0, 1, 2, 8, 9, 15, 30, 37, 60, 370}
Policies ==
    {[duplicate_days |-> 14, daily_weeks |-> 8, weekly_months |-> 12],
     [duplicate_days |-> 2, daily_weeks |-> 1, weekly_months |-> 1],
     [duplicate_days |-> 1, daily_weeks |-> 2, weekly_months |-> 2],
     [duplicate_days |-> 10, daily_weeks |-> 1, weekly_months |-> 2],
     [duplicate_days |-> 0, daily_weeks |-> 0, weekly_months |-> 0]}

RECURSIVE SubsetsUpTo(_, _)
SubsetsUpTo(S, n) ==
    IF n = 0 THEN {{}}
    ELSE LET smaller == SubsetsUpTo(S, n - 1)
         IN  smaller \cup {p \cup {x} : p \in smaller, x \in S}

PruneIdle ==
    /\ today = 0
    /\ settings = [duplicate_days |-> 14, daily_weeks |-> 8, weekly_months |-> 12]
    /\ snapshots = {}
    /\ listed = {}
    /\ remove = {}
    /\ pruned = "off"

PruneInit ==
    /\ today \in Todays
    /\ settings \in Policies
    /\ snapshots \in SubsetsUpTo({Snapshot(today - a, r) : a \in Ages, r \in 1 .. MaxRev},
                                 MaxSnaps)
    /\ listed = {}
    /\ remove = {}
    /\ pruned = "no"

\* cmd_prune: list, select, and unless --dry-run remove every selected one
cmd_prune(dry_run) ==
    /\ pruned # "off"
    /\ listed' = snapshots
    /\ remove' = select_snapshots_to_remove(settings, snapshots, today)
    /\ snapshots' = IF dry_run THEN snapshots ELSE snapshots \ remove'
    /\ pruned' = IF dry_run THEN "dry" ELSE "yes"
    /\ UNCHANGED <<today, settings>>
    /\ UNCHANGED <<ufVars, taskVars, lockVars, offsiteVars, rbdVars, otherVars>>

PruneNext == \E dry_run \in BOOLEAN : cmd_prune(dry_run)

RunInit == UFIdle /\ TaskInit /\ LockIdle /\ PruneIdle /\ OffsiteIdle /\ RbdIdle /\ OtherIdle

SpecRun == RunInit /\ [][RunNext]_vars

LocksInit == UFIdle /\ TaskIdle /\ LockInit /\ PruneIdle /\ OffsiteIdle /\ RbdIdle /\ OtherIdle

SpecLock == LocksInit /\ [][LockNext]_vars

PrunesInit == UFIdle /\ TaskIdle /\ LockIdle /\ PruneInit /\ OffsiteIdle /\ RbdIdle /\ OtherIdle

SpecPrune == PrunesInit /\ [][PruneNext]_vars

UFInit ==
    /\ old \in {NoFile} \cup {[exists |-> TRUE, data |-> d] : d \in SeqsUpTo(Byte, MaxLen)}
    /\ written = <<>>
    /\ uf = NewUpdateFile

\* fh.write(chunk)
Write(chunk) ==
    /\ uf.state = "open"
    /\ Len(written) + Len(chunk) <= MaxLen
    /\ written' = written \o chunk
    /\ uf' = WriteLoop([uf EXCEPT !.buf = uf.buf \o chunk])
    /\ old' = old
    /\ UNCHANGED <<taskVars, lockVars, pruneVars, offsiteVars, rbdVars, otherVars>>

\* __exit__ without an exception, or the end of update_file: close()
Close ==
    /\ uf.state = "open"
    /\ uf' = [CloseLoop(uf) EXCEPT !.state = "closed"]
    /\ UNCHANGED <<old, written>>
    /\ UNCHANGED <<taskVars, lockVars, pruneVars, offsiteVars, rbdVars, otherVars>>

\* fh.write(chunk) when a file operation of the coroutine raises OSError
WriteError(chunk, k) ==
    /\ uf.state = "open"
    /\ Len(written) + Len(chunk) <= MaxLen
    /\ LoopFails([uf EXCEPT !.buf = uf.buf \o chunk], k, FALSE).state = "io_error"
    /\ written' = written \o chunk
    /\ uf' = LoopFails([uf EXCEPT !.buf = uf.buf \o chunk], k, FALSE)
    /\ old' = old
    /\ UNCHANGED <<taskVars, lockVars, pruneVars, offsiteVars, rbdVars, otherVars>>

\* close() when a file operation of the coroutine raises OSError
CloseError(k) ==
    /\ uf.state = "open"
    /\ LoopFails(uf, k, TRUE).state = "io_error"
    /\ uf' = LoopFails(uf, k, TRUE)
    /\ UNCHANGED <<old, written>>
    /\ UNCHANGED <<taskVars, lockVars, pruneVars, offsiteVars, rbdVars, otherVars>>

\* __exit__ with an exception (raised by the caller's code, or the OSError
\* that left write()): abort()
Abort ==
    /\ uf.state = "open" \/ (uf.state = "io_error" /\ uf.coroutine = "dead")
    /\ uf' = [AbortCoroutine(uf) EXCEPT !.state = "aborted"]
    /\ UNCHANGED <<old, written>>
    /\ UNCHANGED <<taskVars, lockVars, pruneVars, offsiteVars, rbdVars, otherVars>>

UFNext ==
    \/ \E chunk \in SeqsUpTo(Byte, MaxLen) : Write(chunk)
    \/ Close
    \/ \E chunk \in SeqsUpTo(Byte, MaxLen), k \in 1..MaxLen : WriteError(chunk, k)
    \/ \E k \in 1..(MaxLen + 2) : CloseError(k)
    \/ Abort

UpdateFileInit == UFInit /\ TaskIdle /\ LockIdle /\ PruneIdle /\ OffsiteIdle /\ RbdIdle /\ OtherIdle

SpecUpdateFile == UpdateFileInit /\ [][UFNext]_vars

(***************************************************************************)
(* AWSArchiver.upload_archive (archivers/aws.py).  Several calls for the    *)
(* same (set_name, archive_name) run concurrently, each in its own process. *)
(* A call is numbered u and Glacier names the archive it creates u; an      *)
(* archive uploaded before any of the calls is named PriorAid.  item is the *)
(* aws-aid attribute of the SimpleDB item "<set>/<archive>".                *)
(*   up[u]   "start", "created" (the archive exists, line 291), "lost"      *)
(*           (_ConditionalCheckFailed caught, line 304), "failed" (another  *)
(*           exception caught, line 308), "done" (returned), "raised"       *)
(*           (the creation of the archive raised), "reraised" (the          *)
(*           exception caught at line 308 was raised again, line 311)       *)
(***************************************************************************)
PriorAid == MaxUploads + 1

UploadInit ==
    /\ \E n \in 1..MaxUploads : up = [u \in 1..n |-> "start"]
    /\ item \in {0, PriorAid}
    /\ vault = IF item = 0 THEN {} ELSE {item}

\* put_attributes(item_name, metadata, expected_value=("aws-aid", False))
\* without the condition
PutAttributesUnconditional(cur, aid) == [item |-> aid, stored |-> TRUE]

\* put_attributes(item_name, metadata, expected_value=("aws-aid", False)):
\* SimpleDB stores the attributes only if the item has no aws-aid attribute
PutAttributes(cur, aid) ==
    IF cur = 0 THEN [item |-> aid, stored |-> TRUE]
    ELSE [item |-> cur, stored |-> FALSE]

\* self._vault.concurrent_create_archive_from_file(...): the archive exists
\* when it returns; an exception leaves the call before the try block
UploadCreate(u, how) ==
    /\ up[u] = "start"
    /\ IF how = "ok"
       THEN /\ vault' = vault \cup {u}
            /\ up' = [up EXCEPT ![u] = "created"]
       ELSE /\ vault' = vault
            /\ up' = [up EXCEPT ![u] = "raised"]
    /\ item' = item
    /\ UNCHANGED <<localVars, downloadVars, quotaVars, archiveVars, rbdVars, otherVars>>

\* the conditional put_attributes inside _conditional_check(); how = "error"
\* is a BotoServerError other than ConditionalCheckFailed (nothing stored)
UploadPut(u, how) ==
    /\ up[u] = "created"
    /\ IF how = "ok"
       THEN LET put == PutAttributes(item, u)
            IN  /\ item' = put.item
                /\ up' = [up EXCEPT ![u] = IF put.stored THEN "done" ELSE "lost"]
       ELSE /\ item' = item
            /\ up' = [up EXCEPT ![u] = "failed"]
    /\ vault' = vault
    /\ UNCHANGED <<localVars, downloadVars, quotaVars, archiveVars, rbdVars, otherVars>>

\* except clauses of which only the one for the lost race deletes
ExceptClauseLostOnly(v, aid, caught) == IF caught = "lost" THEN v \ {aid} ELSE v

\* the vault after either except clause: self._vault.delete_archive(aid)
ExceptClause(v, aid, caught) == v \ {aid}

\* the two except clauses: self._vault.delete_archive(aid), then return
\* (race lost) or re-raise
UploadDiscard(u) ==
    /\ up[u] \in {"lost", "failed"}
    /\ vault' = ExceptClause(vault, u, up[u])
    /\ up' = [up EXCEPT ![u] = IF up[u] = "lost" THEN "done" ELSE "reraised"]
    /\ item' = item
    /\ UNCHANGED <<localVars, downloadVars, quotaVars, archiveVars, rbdVars, otherVars>>

UploadNext ==
    \/ \E u \in DOMAIN up, how \in {"ok", "error"} : UploadCreate(u, how)
    \/ \E u \in DOMAIN up, how \in {"ok", "error"} : UploadPut(u, how)
    \/ \E u \in DOMAIN up : UploadDiscard(u)

UploadsInit ==
    UFIdle /\ TaskIdle /\ LockIdle /\ PruneIdle /\ UploadInit /\ DownloadIdle /\ QuotaIdle
    /\ ArchiveIdle /\ RbdIdle /\ OtherIdle

SpecUpload == UploadsInit /\ [][UploadNext]_vars

(***************************************************************************)
(* DownloadState (archivers/__init__.py) and the retrieval loop of         *)
(* AWSArchiver.download_archives (archivers/aws.py).  An archive is named  *)
(* by its position in archive_list; name 0 is None.                        *)
(*   state   name, offset, remaining, size, requests_done, done, pending   *)
(*           (_pending), outstanding (_outstanding_requests, a function on *)
(*           the names it has as keys), failed (_failed), error (an        *)
(*           assertion of DownloadState failed)                            *)
(*   dl      "start", "launch" (line 355), "wait" (line 383), "returned",  *)
(*           "raised" (AssertionError left the generator)                  *)
(*   jobs    per name the jobs initiated for it, in order; status is       *)
(*           "running", or "ok" / "failed" once the generator has taken    *)
(*           the job's result from finished_queue                          *)
(* A _finish_download thread puts its result on finished_queue and the     *)
(* generator, the only reader, takes it off; threads finish in any order,  *)
(* so the results reach the generator in any order.  The put and the get   *)
(* of one result are one step of the model (DlGet), and a job that is      *)
(* "running" is one whose result the generator has not seen yet.           *)
(***************************************************************************)
Names == 1..MaxArchives

\* dict(d, name=count)
SetItem(d, name, count) ==
    [n \in DOMAIN d \cup {name} |-> IF n = name THEN count ELSE d[n]]

\* del d[name]
DelItem(d, name) == [n \in DOMAIN d \ {name} |-> d[n]]

\* DownloadState._next_item
_next_item(st) ==
    IF st.pending # <<>>
    THEN LET it == Head(st.pending)
         IN  [st EXCEPT !.name = it.name, !.size = it.size, !.offset = 0,
                        !.remaining = it.size, !.pending = Tail(st.pending),
                        !.outstanding = SetItem(st.outstanding, it.name, 0)]
    ELSE [st EXCEPT !.name = 0, !.offset = 0, !.size = 0, !.remaining = 0,
                    !.requests_done = TRUE]

\* DownloadState.__init__
DownloadState(items) ==
    _next_item([name |-> 0, offset |-> 0, remaining |-> 0, size |-> 0,
                requests_done |-> FALSE, done |-> FALSE, pending |-> items,
                outstanding |-> <<>>, failed |-> {}, error |-> FALSE])

\* DownloadState.requested without "self.offset += count"
requested_same_offset(st, count) ==
    IF count > st.remaining THEN [st EXCEPT !.error = TRUE]
    ELSE LET st1 == [st EXCEPT !.remaining = st.remaining - count,
                               !.outstanding[st.name] = st.outstanding[st.name] + 1]
         IN  IF st1.remaining = 0 THEN _next_item(st1) ELSE st1

\* DownloadState.requested
requested(st, count) ==
    IF count > st.remaining THEN [st EXCEPT !.error = TRUE]
    ELSE LET st1 == [st EXCEPT !.offset = st.offset + count,
                               !.remaining = st.remaining - count,
                               !.outstanding[st.name] = st.outstanding[st.name] + 1]
         IN  IF st1.remaining = 0 THEN _next_item(st1) ELSE st1

\* self._outstanding_requests.get(name, 0)
Outstanding(st, name) ==
    IF name \in DOMAIN st.outstanding THEN st.outstanding[name] ELSE 0

\* DownloadState.response_processed without the test of _failed
response_processed_any(st, name) ==
    IF Outstanding(st, name) <= 0 THEN [st |-> [st EXCEPT !.error = TRUE], ret |-> FALSE]
    ELSE LET st1 == [st EXCEPT !.outstanding[name] = st.outstanding[name] - 1]
         IN  IF name # st1.name /\ st1.outstanding[name] = 0
             THEN LET left == DelItem(st1.outstanding, name)
                  IN  [st |-> [st1 EXCEPT !.outstanding = left,
                                          !.done = IF st1.name = 0 /\ DOMAIN left = {}
                                                   THEN TRUE ELSE st1.done,
                                          !.failed = st1.failed \ {name}],
                       ret |-> TRUE]
             ELSE [st |-> st1, ret |-> FALSE]

\* DownloadState.response_processed: the new state and the return value
response_processed(st, name) ==
    IF Outstanding(st, name) <= 0 THEN [st |-> [st EXCEPT !.error = TRUE], ret |-> FALSE]
    ELSE LET st1 == [st EXCEPT !.outstanding[name] = st.outstanding[name] - 1]
         IN  IF name # st1.name /\ st1.outstanding[name] = 0
             THEN LET left == DelItem(st1.outstanding, name)
                  IN  [st |-> [st1 EXCEPT !.outstanding = left,
                                          !.done = IF st1.name = 0 /\ DOMAIN left = {}
                                                   THEN TRUE ELSE st1.done,
                                          !.failed = st1.failed \ {name}],
                       ret |-> name \notin st1.failed]
             ELSE [st |-> st1, ret |-> FALSE]

\* DownloadState.response_failed returning True for every failure
response_failed_always(st, name) ==
    IF Outstanding(st, name) <= 0 THEN [st |-> [st EXCEPT !.error = TRUE], ret |-> FALSE]
    ELSE LET st1 == [st EXCEPT !.failed = st.failed \cup {name}]
             st2 == IF name = st1.name THEN _next_item(st1) ELSE st1
         IN  [st |-> response_processed(st2, name).st, ret |-> TRUE]

\* DownloadState.response_failed without "if name == self.name:
\* self._next_item()"
response_failed_no_skip(st, name) ==
    IF Outstanding(st, name) <= 0 THEN [st |-> [st EXCEPT !.error = TRUE], ret |-> FALSE]
    ELSE LET st1 == [st EXCEPT !.failed = st.failed \cup {name}]
         IN  [st |-> response_processed(st1, name).st, ret |-> name \notin st.failed]

\* DownloadState.response_failed: the new state and the return value
response_failed(st, name) ==
    IF Outstanding(st, name) <= 0 THEN [st |-> [st EXCEPT !.error = TRUE], ret |-> FALSE]
    ELSE LET st1 == [st EXCEPT !.failed = st.failed \cup {name}]
             st2 == IF name = st1.name THEN _next_item(st1) ELSE st1
         IN  [st |-> response_processed(st2, name).st, ret |-> name \notin st.failed]

\* total_size of download_archives
RECURSIVE total_size(_)
total_size(list) ==
    IF list = <<>> THEN 0
    ELSE (IF Head(list).found THEN Head(list).size ELSE 0) + total_size(Tail(list))

\* archive_list and the metadata of its archives
DownloadInit ==
    /\ \E n \in 1..MaxArchives :
         archives \in [1..n -> [size : 0..MaxSize, found : BOOLEAN]]
    /\ total_size(archives) <= MaxTotalSize
    /\ state = [name |-> 0]
    /\ dl = "start"
    /\ jobs = [n \in DOMAIN archives |-> <<>>]
    /\ yielded = <<>>

\* the names of archive_list, in order, that satisfy Test
NamesWhere(Test(_)) ==
    SelectSeq([n \in DOMAIN archives |-> n], Test)

\* download_archives up to the retrieval loop: the metadata is collected,
\* an archive without metadata is yielded with a ValueError, and
\* DownloadState is built from the others
DlCollect ==
    /\ dl = "start"
    /\ LET missing == NamesWhere(LAMBDA n : ~archives[n].found)
           archive_names == NamesWhere(LAMBDA n : archives[n].found)
       IN  /\ yielded' = [i \in DOMAIN missing |-> [name |-> missing[i], ok |-> FALSE]]
           /\ IF archive_names = <<>>
              THEN /\ dl' = "returned"
                   /\ state' = state
              ELSE /\ dl' = "launch"
                   /\ state' = DownloadState([i \in DOMAIN archive_names |->
                                    [name |-> archive_names[i],
                                     size |-> archives[archive_names[i]].size]])
    /\ UNCHANGED <<archives, jobs>>
    /\ UNCHANGED <<localVars, uploadVars, quotaVars, archiveVars, rbdVars, otherVars>>

\* the body of "while not state.requests_done" when _request_download_quota
\* granted request_size > 0 bytes: initiate_job, start the thread,
\* state.requested(request_size)
DlRequest(request_size) ==
    /\ dl = "launch"
    /\ ~state.requests_done
    /\ request_size \in 1..state.remaining
    /\ jobs' = [jobs EXCEPT ![state.name] =
                   Append(@, [offset |-> state.offset, len |-> request_size,
                              status |-> "running"])]
    /\ state' = requested(state, request_size)
    /\ dl' = IF state'.error THEN "raised" ELSE "launch"
    /\ UNCHANGED <<archives, yielded>>
    /\ UNCHANGED <<localVars, uploadVars, quotaVars, archiveVars, rbdVars, otherVars>>

\* _request_download_quota returned a request_size of 0: break
DlNoQuota ==
    /\ dl = "launch"
    /\ ~state.requests_done
    /\ dl' = "wait"
    /\ UNCHANGED <<archives, state, jobs, yielded>>
    /\ UNCHANGED <<localVars, uploadVars, quotaVars, archiveVars, rbdVars, otherVars>>

\* "while not state.requests_done" ends
DlRequestsDone ==
    /\ dl = "launch"
    /\ state.requests_done
    /\ dl' = "wait"
    /\ UNCHANGED <<archives, state, jobs, yielded>>
    /\ UNCHANGED <<localVars, uploadVars, quotaVars, archiveVars, rbdVars, otherVars>>

\* the body of the wait loop when finished_queue.get returned the result
\* that the _finish_download thread of job k of archive n had put there:
\* (archive_name, None) or (archive_name, e)
DlGet(n, k, exception) ==
    /\ dl = "wait"
    /\ jobs[n][k].status = "running"
    /\ LET res == IF exception THEN response_failed(state, n)
                  ELSE response_processed(state, n)
       IN  /\ state' = res.st
           /\ yielded' = IF res.ret
                         THEN Append(yielded, [name |-> n, ok |-> ~exception])
                         ELSE yielded
           /\ dl' = IF res.st.error THEN "raised"
                    ELSE IF res.st.done THEN "returned" ELSE "wait"
    /\ jobs' = [jobs EXCEPT ![n][k].status = IF exception THEN "failed" ELSE "ok"]
    /\ archives' = archives
    /\ UNCHANGED <<localVars, uploadVars, quotaVars, archiveVars, rbdVars, otherVars>>

\* finished_queue.get timed out (Queue.Empty): no result arrived before the
\* next timeslot began
DlTimeout ==
    /\ dl = "wait"
    /\ dl' = "launch"
    /\ UNCHANGED <<archives, state, jobs, yielded>>
    /\ UNCHANGED <<localVars, uploadVars, quotaVars, archiveVars, rbdVars, otherVars>>

DownloadNext ==
    \/ DlCollect
    \/ \E request_size \in 1..MaxSize : DlRequest(request_size)
    \/ DlNoQuota
    \/ DlRequestsDone
    \/ \E n \in DOMAIN jobs, exception \in BOOLEAN :
         \E k \in DOMAIN jobs[n] : DlGet(n, k, exception)
    \/ DlTimeout

DownloadsInit ==
    UFIdle /\ TaskIdle /\ LockIdle /\ PruneIdle /\ UploadIdle /\ DownloadInit /\ QuotaIdle
    /\ ArchiveIdle /\ RbdIdle /\ OtherIdle

SpecDownload == DownloadsInit /\ [][DownloadNext]_vars

(***************************************************************************)
(* AWSArchiver._request_download_quota and _get_bandwidth_item             *)
(* (archivers/aws.py).  Several instances allocate retrieval bandwidth     *)
(* from the one SimpleDB item "/bandwidth".                                *)
(*   clock    hour is the current timeslot; phase is "begin" while less    *)
(*            than TIMESLOT_SLOP of the hour has passed, "end" while less  *)
(*            than TIMESLOT_SLOP of it is left, "mid" in between.  The     *)
(*            clocks of the instances differ by less than TIMESLOT_SLOP,   *)
(*            so whenever an instance finds itself outside the slop        *)
(*            windows every instance is in the same timeslot.              *)
(*   ledger   serial (0: the attribute does not exist), bw (the            *)
(*            bandwidth-<hour> attributes, a function on the hours that    *)
(*            have one), max_bw_month (max-bandwidth-month)                *)
(*   inst[i]  pc "idle", "put" (data computed, before put_attributes),     *)
(*            "retry" (_ConditionalCheckFailed caught, before the          *)
(*            recursive call), "assert" (the assertion of line 183         *)
(*            failed); download_size, last_serial, data, cur_slot and      *)
(*            allocation are the locals of the call                        *)
(*   initiated[h]  what was granted by the calls that returned timeslot h: *)
(*            bytes, the sum of the request sizes returned, and hourly,    *)
(*            the sum of their quarters rounded up                         *)
(***************************************************************************)
BILLING_RETRIEVAL_HOURS == 4

\* the instances that allocate from the same ledger
Instances == {1, 2}

\* the values of download_size (state.remaining) tried: they need 1, 2 and
\* at least 3 bytes per hour
DownloadSizes == {1, 5, MaxDownload}

\* math.ceil(a / b)
CeilDiv(a, b) == (a + b - 1) \div b

Max(a, b) == IF a > b THEN a ELSE b

\* data.get("bandwidth-<h>", 0)
GetBw(bw, h) == IF h \in DOMAIN bw THEN bw[h] ELSE 0

\* timeslot_attrs: the hours cur_slot .. cur_slot + 3
TimeslotAttrs(cur_slot) == cur_slot..(cur_slot + BILLING_RETRIEVAL_HOURS - 1)

\* _get_bandwidth_item with "<=" for "<": the current hour is deleted too
IsStaleOrCurrent(h, now_hour) == h <= now_hour

\* _get_bandwidth_item: dateutil.parser.parse(timestamp_str) < now_hour
IsStale(h, now_hour) == h < now_hour

\* the hourly attributes _get_bandwidth_item leaves in data
FreshBw(bw, now_hour) ==
    [h \in {k \in DOMAIN bw : ~IsStale(k, now_hour)} |-> bw[h]]

\* the assertion of _request_download_quota
NonIncreasing(bw, cur_slot) ==
    \A h \in TimeslotAttrs(cur_slot) \ {cur_slot} : GetBw(bw, h) <= GetBw(bw, h - 1)

\* the allocation computed from the last of the four timeslots
AllocationFromLast(rate, bw, cur_slot, download_size) ==
    LET size_per_hour == CeilDiv(download_size, BILLING_RETRIEVAL_HOURS)
        hourly_quantum == DOWNLOAD_QUANTUM \div BILLING_RETRIEVAL_HOURS
        avail == rate - GetBw(bw, cur_slot + BILLING_RETRIEVAL_HOURS - 1)
    IN  IF avail < size_per_hour THEN (avail \div hourly_quantum) * hourly_quantum
        ELSE size_per_hour

\* "Calculate available allocation": what one timeslot can still give
Allocation(rate, bw, cur_slot, download_size) ==
    LET size_per_hour == CeilDiv(download_size, BILLING_RETRIEVAL_HOURS)
        hourly_quantum == DOWNLOAD_QUANTUM \div BILLING_RETRIEVAL_HOURS
        avail == rate - GetBw(bw, cur_slot)
    IN  IF avail < size_per_hour THEN (avail \div hourly_quantum) * hourly_quantum
        ELSE size_per_hour

\* "Allocate": data[attr] = str(bw + allocation) for the four timeslots
Allocate(bw, cur_slot, allocation) ==
    [h \in DOMAIN bw \cup TimeslotAttrs(cur_slot) |->
        IF h \in TimeslotAttrs(cur_slot) THEN GetBw(bw, h) + allocation ELSE bw[h]]

\* put_attributes(item, data): the attributes of data replace those stored
PutBw(stored, data) ==
    [h \in DOMAIN stored \cup DOMAIN data |->
        IF h \in DOMAIN data THEN data[h] ELSE stored[h]]

\* put_attributes without expected_value: the write is always applied
ExpectedValueIgnored(stored_serial, last_serial) == TRUE

\* expected_value=("serial", last_serial): the write is applied only if the
\* stored serial is the one that was read (or, for False, there is none)
ExpectedValue(stored_serial, last_serial) == stored_serial = last_serial

IdleInstance ==
    [pc |-> "idle", download_size |-> 0, last_serial |-> 0, data |-> <<>>,
     max_bw_month |-> 0, cur_slot |-> 0, allocation |-> 0]

QuotaInit ==
    /\ clock = [hour |-> 0, phase |-> "begin"]
    /\ max_rate \in 1..MaxRate
    /\ ledger = [serial |-> 0, bw |-> <<>>, max_bw_month |-> 0]
    /\ inst = [i \in Instances |-> IdleInstance]
    /\ initiated = [h \in 0..MaxHour |-> [bytes |-> 0, hourly |-> 0]]

\* time passes: the next phase of the hour, or the next hour
Tick ==
    /\ clock.hour < MaxHour \/ clock.phase # "end"
    /\ clock' = IF clock.phase = "begin" THEN [clock EXCEPT !.phase = "mid"]
                ELSE IF clock.phase = "mid" THEN [clock EXCEPT !.phase = "end"]
                ELSE [hour |-> clock.hour + 1, phase |-> "begin"]
    /\ UNCHANGED <<max_rate, ledger, inst, initiated>>
    /\ UNCHANGED <<localVars, uploadVars, downloadVars, archiveVars, rbdVars, otherVars>>

\* _request_download_quota(max_rate, download_size) up to put_attributes:
\* _get_bandwidth_item reads the item and deletes its stale attributes; then
\* the slop test, the assertion and the allocation
QuotaRequest(i, download_size) ==
    /\ \/ inst[i].pc = "idle"
       \/ inst[i].pc = "retry" /\ download_size = inst[i].download_size
    /\ LET cur_slot == clock.hour
           data == FreshBw(ledger.bw, cur_slot)
           allocation == Allocation(max_rate, data, cur_slot, download_size)
       IN  /\ ledger' = [ledger EXCEPT !.bw = data]
           /\ inst' = [inst EXCEPT ![i] =
                  IF clock.phase # "mid" THEN IdleInstance
                  ELSE IF ~NonIncreasing(data, cur_slot)
                  THEN [IdleInstance EXCEPT !.pc = "assert"]
                  ELSE IF allocation <= 0 THEN IdleInstance
                  ELSE [pc |-> "put", download_size |-> download_size,
                        last_serial |-> ledger.serial,
                        data |-> Allocate(data, cur_slot, allocation),
                        max_bw_month |-> Max(GetBw(data, cur_slot) + allocation,
                                             ledger.max_bw_month),
                        cur_slot |-> cur_slot, allocation |-> allocation]]
    /\ UNCHANGED <<clock, max_rate, initiated>>
    /\ UNCHANGED <<localVars, uploadVars, downloadVars, archiveVars, rbdVars, otherVars>>

\* put_attributes(BANDWIDTH_ITEM, data, expected_value=("serial", last_serial))
\* and the return of (cur_slot, min(allocation * 4, download_size)), or
\* _ConditionalCheckFailed
QuotaPut(i) ==
    /\ inst[i].pc = "put"
    /\ IF ExpectedValue(ledger.serial, inst[i].last_serial)
       THEN LET request_size == Min(inst[i].allocation * BILLING_RETRIEVAL_HOURS,
                                    inst[i].download_size)
            IN  /\ ledger' = [serial |-> inst[i].last_serial + 1,
                              bw |-> PutBw(ledger.bw, inst[i].data),
                              max_bw_month |-> inst[i].max_bw_month]
                /\ inst' = [inst EXCEPT ![i] = IdleInstance]
                /\ initiated' = [initiated EXCEPT ![inst[i].cur_slot] =
                       [bytes |-> @.bytes + request_size,
                        hourly |-> @.hourly + CeilDiv(request_size, BILLING_RETRIEVAL_HOURS)]]
       ELSE /\ inst' = [inst EXCEPT ![i].pc = "retry"]
            /\ UNCHANGED <<ledger, initiated>>
    /\ UNCHANGED <<clock, max_rate>>
    /\ UNCHANGED <<localVars, uploadVars, downloadVars, archiveVars, rbdVars, otherVars>>

QuotaNext ==
    \/ Tick
    \/ \E i \in Instances, download_size \in DownloadSizes : QuotaRequest(i, download_size)
    \/ \E i \in Instances : QuotaPut(i)

QuotasInit ==
    UFIdle /\ TaskIdle /\ LockIdle /\ PruneIdle /\ UploadIdle /\ DownloadIdle /\ QuotaInit
    /\ ArchiveIdle /\ RbdIdle /\ OtherIdle

SpecQuota == QuotasInit /\ [][QuotaNext]_vars

(***************************************************************************)
(* Archive sets, archive_snapshot and the archive run command              *)
(* (archivers/__init__.py).  Snapshots are named 1, 2, ... in the order of *)
(* their creation and an archive set has the name of its snapshot.         *)
(*   asets[s]  archives: the units that have an archive record in set s;   *)
(*             complete: the set item carries the complete flag.  The set  *)
(*             is listed by list_sets when it has either.                  *)
(*   arun      pc "idle", "task" (inside archive_snapshot, units selected),*)
(*             "done" (archive_snapshot returned True), "failed" (it       *)
(*             returned False: sys.exit(1)), "usage" (click.UsageError),   *)
(*             "raised" (IndexError: no archive set to resume);            *)
(*             mode, snap (chosen_snapshot), units (the units selected),   *)
(*             queued (those still in the queue of the _ArchiveTask),      *)
(*             outcome (how the archive unit subcommand of a unit ended),  *)
(*             alive (worker threads not ended by an exception), success   *)
(*             (Task._success), was_complete (the set was already complete *)
(*             when the units were selected)                               *)
(***************************************************************************)
ArchiveUnits == 1..MaxArchiveUnits

\* the snapshots of the model: the first one and one taken later
Snaps == {1, 2}

EmptySet == [archives |-> {}, complete |-> FALSE]

\* the largest element of a non-empty set of numbers
Last(S) == CHOOSE x \in S : \A y \in S : y <= x

\* SnapshotArchiveSet.list: the sets list_sets() reports
ListedSets == {s \in Snaps : asets[s] # EmptySet}

IdleArchiveRun ==
    [pc |-> "idle", mode |-> "", snap |-> 0, units |-> {}, queued |-> {},
     outcome |-> <<>>, alive |-> 0, success |-> TRUE, was_complete |-> FALSE]

ArchiveInit ==
    /\ psnaps = {1}
    /\ configured \in SUBSET ArchiveUnits
    /\ \E dirs \in SUBSET ArchiveUnits :
         backed = [s \in Snaps |-> IF s = 1 THEN dirs ELSE {}]
    /\ asets = [s \in Snaps |-> EmptySet]
    /\ arun = IdleArchiveRun

\* a backup run took another snapshot; dirs are the unit directories in it
NewSnapshot(dirs) ==
    /\ Last(psnaps) + 1 \in Snaps
    /\ LET s == Last(psnaps) + 1
       IN  /\ psnaps' = psnaps \cup {s}
           /\ backed' = [backed EXCEPT ![s] = dirs]
    /\ UNCHANGED <<configured, asets, arun>>
    /\ UNCHANGED <<localVars, uploadVars, downloadVars, quotaVars, rbdVars, otherVars>>

\* the administrator adds a unit to the configuration
Configure(u) ==
    /\ arun.pc # "task"
    /\ u \notin configured
    /\ configured' = configured \cup {u}
    /\ UNCHANGED <<psnaps, backed, asets, arun>>
    /\ UNCHANGED <<localVars, uploadVars, downloadVars, quotaVars, rbdVars, otherVars>>

\* SnapshotArchiveSet.delete: delete_set removes the set item and every
\* archive of the set
DeleteSet(s) ==
    /\ asets[s] # EmptySet
    /\ asets' = [asets EXCEPT ![s] = EmptySet]
    /\ UNCHANGED <<psnaps, configured, backed, arun>>
    /\ UNCHANGED <<localVars, uploadVars, downloadVars, quotaVars, rbdVars, otherVars>>

\* archive_snapshot: the units to archive, those that are in the snapshot
\* and have no archive in the set yet
SelectUnits(snap) == (configured \cap backed[snap]) \ asets[snap].archives

\* archive run [--resume] [SNAPSHOT] (snapshot 0: no argument): the snapshot
\* is chosen, the lock taken and archive_snapshot selects its units
ArchiveRunStart(snapshot, resume, workers) ==
    /\ arun.pc \in {"idle", "done", "failed", "usage", "raised"}
    /\ LET mode == CASE snapshot # 0 /\ resume -> "both"
                     [] snapshot # 0 /\ ~resume -> "snapshot"
                     [] snapshot = 0 /\ resume -> "resume"
                     [] snapshot = 0 /\ ~resume -> "default"
           chosen == CASE mode = "both"     -> 0
                       [] mode = "default"  -> Last(psnaps)
                       [] mode = "snapshot" -> snapshot
                       [] mode = "resume"   -> IF ListedSets = {} THEN 0
                                               ELSE Last(ListedSets)
           refused == CASE mode = "both"     -> "usage"
                        [] mode = "default"  -> ""
                        [] mode = "snapshot" ->
                             IF snapshot \in psnaps THEN "" ELSE "usage"
                        [] mode = "resume"   ->
                             IF ListedSets = {} THEN "raised"
                             ELSE IF asets[chosen].complete THEN "usage" ELSE ""
       IN  arun' = IF refused # ""
                   THEN [IdleArchiveRun EXCEPT !.pc = refused, !.mode = mode]
                   ELSE [pc |-> "task", mode |-> mode, snap |-> chosen,
                         units |-> SelectUnits(chosen), queued |-> SelectUnits(chosen),
                         outcome |-> [u \in SelectUnits(chosen) |-> "queued"],
                         alive |-> workers, success |-> TRUE,
                         was_complete |-> asets[chosen].complete]
    /\ UNCHANGED <<psnaps, configured, backed, asets>>
    /\ UNCHANGED <<localVars, uploadVars, downloadVars, quotaVars, rbdVars, otherVars>>

\* _ArchiveTask._execute(unit): the "archive unit" subcommand packs the unit
\* and stores the archive (how = "ok"), exits non-zero ("failed"), or an
\* exception leaves _execute and ends the worker ("raised")
ArchiveUnit(u, how) ==
    /\ arun.pc = "task"
    /\ u \in arun.queued
    /\ arun.alive > 0
    /\ arun' = [arun EXCEPT !.queued = @ \ {u},
                            !.outcome[u] = how,
                            !.success = SuccessAfter(@, how),
                            !.alive = IF how = "raised" THEN @ - 1 ELSE @]
    /\ asets' = IF how = "ok"
                THEN [asets EXCEPT ![arun.snap].archives = @ \cup {u}]
                ELSE asets
    /\ UNCHANGED <<psnaps, configured, backed>>
    /\ UNCHANGED <<localVars, uploadVars, downloadVars, quotaVars, rbdVars, otherVars>>

\* archive_snapshot marking the set complete whatever wait() returned
MarksCompleteAlways(units, task_success) == TRUE

\* archive_snapshot: whether set.mark_complete() is reached: there was no
\* unit to archive, or task.wait() returned True
MarksComplete(units, task_success) == units = {} \/ task_success

\* archive_snapshot after the units were selected: task.wait() returns
\* once every worker has ended, then set.mark_complete() or return False
ArchiveWait ==
    /\ arun.pc = "task"
    /\ arun.queued = {} \/ arun.alive = 0
    /\ IF MarksComplete(arun.units, arun.success)
       THEN /\ asets' = [asets EXCEPT ![arun.snap].complete = TRUE]
            /\ arun' = [arun EXCEPT !.pc = "done", !.queued = {}, !.alive = 0]
       ELSE /\ asets' = asets
            /\ arun' = [arun EXCEPT !.pc = "failed", !.queued = {}, !.alive = 0]
    /\ UNCHANGED <<psnaps, configured, backed>>
    /\ UNCHANGED <<localVars, uploadVars, downloadVars, quotaVars, rbdVars, otherVars>>

ArchiveNext ==
    \/ \E dirs \in SUBSET ArchiveUnits : NewSnapshot(dirs)
    \/ \E u \in ArchiveUnits : Configure(u)
    \/ \E s \in Snaps : DeleteSet(s)
    \/ \E snapshot \in {0} \cup Snaps, resume \in BOOLEAN, workers \in 1..MaxWorkers :
          ArchiveRunStart(snapshot, resume, workers)
    \/ \E u \in ArchiveUnits, how \in {"ok", "failed", "raised"} : ArchiveUnit(u, how)
    \/ ArchiveWait

ArchivesInit ==
    UFIdle /\ TaskIdle /\ LockIdle /\ PruneIdle /\ UploadIdle /\ DownloadIdle /\ QuotaIdle
    /\ ArchiveInit /\ RbdIdle /\ OtherIdle

SpecArchive == ArchivesInit /\ [][ArchiveNext]_vars

(***************************************************************************)
(* RBD image backup (sources/rbd.py, backup_image).  Source snapshots are  *)
(* named 1, 2, ... in the order of their creation (the code names them     *)
(* backup-<uuid1>); 0 stands for None.                                     *)
(*   owner[n]   the image snapshot n belongs to in the pool: "img" (the    *)
(*              image the unit is configured for), "other", or "none"      *)
(*              when the pool has no such snapshot                         *)
(*   mirror     exists; snapshot, pending: user.rbd.snapshot and           *)
(*              user.rbd.pending-snapshot; data: the snapshot whose        *)
(*              content the file holds, -1 while a diff is half applied    *)
(*   pendfile   exists; to: the snapshot the diff leads to; complete: the  *)
(*              export wrote the whole diff                                *)
(*   rb         pc: the position in backup_image; round: the first or the  *)
(*              second call of apply_patch_and_rebase; old_snapshot,       *)
(*              new_snapshot: the locals; start_pending: the pending       *)
(*              snapshot found, with its .pending file, when the run       *)
(*              began; base: what the check of the base snapshot found;    *)
(*              discarded: the run unlinked the mirror; created: the run   *)
(*              created a source snapshot, and seen is what the mirror     *)
(*              looked like when it created its first one; at: where a     *)
(*              kill stopped the run; resumes: where a kill had stopped    *)
(*              the run before this one; killed: some run was killed;      *)
(*              hindered: something outside the code went wrong so far (a  *)
(*              command failed, a snapshot was removed from the pool, the  *)
(*              unit was configured for another image)                     *)
(***************************************************************************)
RbdSnaps == 1..MaxRbdSnaps

NoMirror == [exists |-> FALSE, snapshot |-> 0, pending |-> 0, data |-> 0]

NoPending == [exists |-> FALSE, to |-> 0, complete |-> FALSE]

NotSeen == [snapshot |-> 0, pending |-> 0, pendfile |-> FALSE, data |-> 0, base |-> "none"]

IdleBackup ==
    [pc |-> "idle", round |-> 0, old_snapshot |-> 0, new_snapshot |-> 0,
     start_pending |-> 0, base |-> "none", discarded |-> FALSE,
     created |-> FALSE, seen |-> NotSeen,
     at |-> "", resumes |-> "", killed |-> FALSE, hindered |-> FALSE]

RbdInit ==
    /\ owner = [n \in RbdSnaps |-> "none"]
    /\ mirror = NoMirror
    /\ pendfile = NoPending
    /\ rb = IdleBackup

\* the snapshots the pool has
OnSource == {n \in RbdSnaps : owner[n] # "none"}

\* create_snapshot: the name of the snapshot it creates
FreshSnapshot ==
    1 + Last(OnSource \cup {mirror.snapshot, mirror.pending, pendfile.to,
                            rb.new_snapshot, rb.old_snapshot, rb.start_pending})

\* XAttrs(path).get(attr): None when the file does not exist
GetSnapshotAttr == IF mirror.exists THEN mirror.snapshot ELSE 0

\* get_image_for_snapshot: "none" stands for the KeyError
get_image_for_snapshot(snapshot) == owner[snapshot]

\* someone removes a snapshot from the pool (with its image or alone)
SourceRemove(n) ==
    /\ owner[n] # "none"
    /\ owner' = [owner EXCEPT ![n] = "none"]
    /\ rb' = [rb EXCEPT !.hindered = TRUE]
    /\ UNCHANGED <<mirror, pendfile>>
    /\ UNCHANGED <<localVars, offsiteVars, otherVars>>

\* the unit is configured for another image of the pool: the snapshots
\* taken so far belong to an image that is not the configured one
ImageChanged ==
    /\ rb.pc \in {"idle", "done", "raised", "killed"}
    /\ \E n \in RbdSnaps : owner[n] = "img"
    /\ owner' = [n \in RbdSnaps |-> IF owner[n] = "img" THEN "other" ELSE owner[n]]
    /\ rb' = [rb EXCEPT !.hindered = TRUE]
    /\ UNCHANGED <<mirror, pendfile>>
    /\ UNCHANGED <<localVars, offsiteVars, otherVars>>

\* rbd backup POOL NAME: backup_image is entered
RbdStart ==
    /\ rb.pc \in {"idle", "done", "raised", "killed"}
    /\ rb' = [IdleBackup EXCEPT
                !.pc = "base",
                !.resumes = IF rb.pc = "killed" THEN rb.at ELSE "",
                !.killed = rb.killed,
                !.hindered = rb.hindered,
                !.start_pending =
                    IF mirror.exists /\ mirror.pending # 0 /\ pendfile.exists
                    THEN mirror.pending ELSE 0]
    /\ UNCHANGED <<owner, mirror, pendfile>>
    /\ UNCHANGED <<localVars, offsiteVars, otherVars>>

\* backup_image: the check for a common base image.  A base snapshot that
\* is gone has the mirror unlinked; for one that belongs to another image
\* the with statement evaluates contextlib.suppres, which does not exist:
\* AttributeError before the unlink
RbdCheckBase ==
    /\ rb.pc = "base"
    /\ LET old_snapshot == GetSnapshotAttr
           old_image == IF old_snapshot = 0 THEN "none"
                        ELSE get_image_for_snapshot(old_snapshot)
       IN  CASE old_snapshot = 0 ->
                  /\ rb' = [rb EXCEPT !.pc = "full"]
                  /\ mirror' = mirror
             [] old_snapshot # 0 /\ old_image = "img" ->
                  /\ rb' = [rb EXCEPT !.pc = "apply", !.round = 1, !.base = "ok",
                                      !.old_snapshot = old_snapshot]
                  /\ mirror' = mirror
             [] old_snapshot # 0 /\ old_image = "none" ->
                  /\ rb' = [rb EXCEPT !.pc = "full", !.base = "missing",
                                      !.discarded = TRUE]
                  /\ mirror' = NoMirror
             [] old_snapshot # 0 /\ old_image = "other" ->
                  /\ rb' = [rb EXCEPT !.pc = "raised", !.base = "foreign",
                                      !.old_snapshot = old_snapshot]
                  /\ mirror' = mirror
    /\ UNCHANGED <<owner, pendfile>>
    /\ UNCHANGED <<localVars, offsiteVars, otherVars>>

\* what the run sees of the mirror when it creates a source snapshot
Seen == [snapshot |-> GetSnapshotAttr,
         pending  |-> IF mirror.exists THEN mirror.pending ELSE 0,
         pendfile |-> pendfile.exists,
         data     |-> IF mirror.exists THEN mirror.data ELSE 0,
         base     |-> IF rb.old_snapshot = 0 THEN "none" ELSE owner[rb.old_snapshot]]

\* create_snapshot, called by fetch_image (pc "full") and by make_patch
\* (pc "patch", after try_unlink of a leftover .pending file); rbd snap
\* create may fail
RbdCreateSnapshot(ok) ==
    /\ rb.pc \in {"full", "patch"}
    /\ FreshSnapshot \in RbdSnaps
    /\ pendfile' = IF rb.pc = "patch" THEN NoPending ELSE pendfile
    /\ IF ok
       THEN /\ owner' = [owner EXCEPT ![FreshSnapshot] = "img"]
            /\ rb' = [rb EXCEPT !.pc = IF rb.pc = "full" THEN "fetch" ELSE "export",
                                !.new_snapshot = FreshSnapshot,
                                !.old_snapshot = IF rb.pc = "patch" THEN mirror.snapshot ELSE @,
                                !.created = TRUE,
                                !.seen = IF rb.created THEN @ ELSE Seen]
       ELSE /\ owner' = owner
            /\ rb' = [rb EXCEPT !.pc = "raised", !.hindered = TRUE]
    /\ UNCHANGED mirror
    /\ UNCHANGED <<localVars, offsiteVars, otherVars>>

\* fetch_snapshot: a path that exists is unlinked, the export of the whole
\* snapshot is unpacked into a new file; when that fails the file is
\* unlinked and fetch_image deletes the new snapshot
RbdFetch(ok) ==
    /\ rb.pc = "fetch"
    /\ IF ok
       THEN /\ mirror' = [exists |-> TRUE, snapshot |-> 0, pending |-> 0,
                          data |-> rb.new_snapshot]
            /\ rb' = [rb EXCEPT !.pc = "fetched"]
            /\ owner' = owner
       ELSE /\ mirror' = NoMirror
            /\ rb' = [rb EXCEPT !.pc = "raised", !.hindered = TRUE]
            /\ owner' = [owner EXCEPT ![rb.new_snapshot] = "none"]
    /\ UNCHANGED pendfile
    /\ UNCHANGED <<localVars, offsiteVars, otherVars>>

\* fetch_snapshot: XAttrs(path).update(ATTR_SNAPSHOT, snapshot)
RbdFetchRecord ==
    /\ rb.pc = "fetched"
    /\ mirror' = [mirror EXCEPT !.snapshot = rb.new_snapshot]
    /\ rb' = [rb EXCEPT !.pc = "done"]
    /\ UNCHANGED <<owner, pendfile>>
    /\ UNCHANGED <<localVars, offsiteVars, otherVars>>

\* where backup_image goes on after a call of apply_patch_and_rebase
AfterApply == IF rb.round = 1 THEN "patch" ELSE "done"

\* apply_patch_and_rebase without a pending snapshot: nothing to do but
\* try_unlink(pending_path)
RbdApplyNothing ==
    /\ rb.pc = "apply"
    /\ mirror.pending = 0
    /\ pendfile' = NoPending
    /\ rb' = [rb EXCEPT !.pc = AfterApply, !.old_snapshot = mirror.snapshot]
    /\ UNCHANGED <<owner, mirror>>
    /\ UNCHANGED <<localVars, offsiteVars, otherVars>>

\* apply_patch_and_rebase: unpack_diff of the .pending file onto the
\* mirror; it raises when the file is missing or holds no whole diff, and
\* may raise on a record it does not understand
RbdUnpack(ok) ==
    /\ rb.pc = "apply"
    /\ mirror.pending # 0
    /\ IF ok /\ pendfile.exists /\ pendfile.complete
       THEN /\ mirror' = [mirror EXCEPT !.data = mirror.pending]
            /\ rb' = [rb EXCEPT !.pc = "delete", !.old_snapshot = mirror.snapshot,
                                !.new_snapshot = mirror.pending]
       ELSE /\ mirror' = [mirror EXCEPT !.data = IF pendfile.exists THEN -1 ELSE @]
            /\ rb' = [rb EXCEPT !.pc = "raised", !.hindered = @ \/ ~ok]
    /\ UNCHANGED <<owner, pendfile>>
    /\ UNCHANGED <<localVars, offsiteVars, otherVars>>

\* apply_patch_and_rebase: delete_snapshot(pool, image, old_snapshot); rbd
\* snap rm fails when the image has no such snapshot, and may fail anyway
RbdDeleteOld(ok) ==
    /\ rb.pc = "delete"
    /\ IF ok /\ owner[rb.old_snapshot] = "img"
       THEN /\ owner' = [owner EXCEPT ![rb.old_snapshot] = "none"]
            /\ rb' = [rb EXCEPT !.pc = "rotate"]
       ELSE /\ owner' = owner
            /\ rb' = [rb EXCEPT !.pc = "raised", !.hindered = @ \/ ~ok]
    /\ UNCHANGED <<mirror, pendfile>>
    /\ UNCHANGED <<localVars, offsiteVars, otherVars>>

\* apply_patch_and_rebase: attrs.update(ATTR_SNAPSHOT, new_snapshot)
RbdRotate ==
    /\ rb.pc = "rotate"
    /\ mirror' = [mirror EXCEPT !.snapshot = rb.new_snapshot]
    /\ rb' = [rb EXCEPT !.pc = "unset"]
    /\ UNCHANGED <<owner, pendfile>>
    /\ UNCHANGED <<localVars, offsiteVars, otherVars>>

\* apply_patch_and_rebase: attrs.delete(ATTR_PENDING_SNAPSHOT)
RbdUnsetPending ==
    /\ rb.pc = "unset"
    /\ mirror' = [mirror EXCEPT !.pending = 0]
    /\ rb' = [rb EXCEPT !.pc = "unlink"]
    /\ UNCHANGED <<owner, pendfile>>
    /\ UNCHANGED <<localVars, offsiteVars, otherVars>>

\* apply_patch_and_rebase: os.unlink(pending_path)
RbdUnlinkPending ==
    /\ rb.pc = "unlink"
    /\ pendfile' = NoPending
    /\ rb' = [rb EXCEPT !.pc = AfterApply]
    /\ UNCHANGED <<owner, mirror>>
    /\ UNCHANGED <<localVars, offsiteVars, otherVars>>

\* make_patch: rbd export-diff --from-snap old_snapshot into the .pending
\* file; it fails when the image has no snapshot old_snapshot, and may fail
\* anyway: then the file is unlinked and the new snapshot deleted
RbdExport(ok) ==
    /\ rb.pc = "export"
    /\ IF ok /\ owner[rb.old_snapshot] = "img" /\ owner[rb.new_snapshot] = "img"
       THEN /\ pendfile' = [exists |-> TRUE, to |-> rb.new_snapshot, complete |-> TRUE]
            /\ rb' = [rb EXCEPT !.pc = "record"]
            /\ owner' = owner
       ELSE /\ pendfile' = NoPending
            /\ rb' = [rb EXCEPT !.pc = "raised", !.hindered = @ \/ ~ok]
            /\ owner' = [owner EXCEPT ![rb.new_snapshot] = "none"]
    /\ UNCHANGED mirror
    /\ UNCHANGED <<localVars, offsiteVars, otherVars>>

\* make_patch: attrs.update(ATTR_PENDING_SNAPSHOT, new_snapshot); then
\* backup_image calls apply_patch_and_rebase again
RbdRecordPending ==
    /\ rb.pc = "record"
    /\ mirror' = [mirror EXCEPT !.pending = rb.new_snapshot]
    /\ rb' = [rb EXCEPT !.pc = "apply", !.round = 2]
    /\ UNCHANGED <<owner, pendfile>>
    /\ UNCHANGED <<localVars, offsiteVars, otherVars>>

\* the process is killed (or the host goes down) between two steps; a kill
\* during the export leaves the part of the .pending file written so far
RbdInterrupt ==
    /\ rb.pc \notin {"idle", "done", "raised", "killed"}
    /\ rb' = [rb EXCEPT !.pc = "killed", !.at = rb.pc, !.killed = TRUE]
    /\ pendfile' = IF rb.pc = "export"
                   THEN [exists |-> TRUE, to |-> rb.new_snapshot, complete |-> FALSE]
                   ELSE pendfile
    /\ UNCHANGED <<owner, mirror>>
    /\ UNCHANGED <<localVars, offsiteVars, otherVars>>

RbdNext ==
    \/ \E n \in RbdSnaps : SourceRemove(n)
    \/ ImageChanged
    \/ RbdStart
    \/ RbdCheckBase
    \/ \E ok \in BOOLEAN : RbdCreateSnapshot(ok)
    \/ \E ok \in BOOLEAN : RbdFetch(ok)
    \/ RbdFetchRecord
    \/ RbdApplyNothing
    \/ \E ok \in BOOLEAN : RbdUnpack(ok)
    \/ \E ok \in BOOLEAN : RbdDeleteOld(ok)
    \/ RbdRotate
    \/ RbdUnsetPending
    \/ RbdUnlinkPending
    \/ \E ok \in BOOLEAN : RbdExport(ok)
    \/ RbdRecordPending
    \/ RbdInterrupt

RbdsInit ==
    UFIdle /\ TaskIdle /\ LockIdle /\ PruneIdle /\ OffsiteIdle /\ RbdInit /\ OtherIdle

SpecRbd == RbdsInit /\ [][RbdNext]_vars

(***************************************************************************)
(* Coda (sources/coda.py): update_dir reads the tar stream of a volume     *)
(* dump; update_dir_from_tar, for a regular-file entry, passes a           *)
(* TarMemberFile to update_file (util.py), which copies it block by block  *)
(* into an UpdateFile.  One regular-file entry is modelled.                *)
(*   coda.data       the content of the entry (entry.size = Len(data))     *)
(*   coda.avail      how many bytes of it the stream delivers before it    *)
(*                   ends; avail < Len(data) is a truncated stream         *)
(*   coda.kind       what lstat finds at the path: "none", "file" (with    *)
(*                   the content old.data) or "symlink"                    *)
(*   coda.short      what the file object of tarfile does when the stream  *)
(*                   ends inside the entry: "return" the bytes it got, as  *)
(*                   the tarfile of Python 2 does, or "raise" ReadError,   *)
(*                   as the tarfile of Python 3 does                       *)
(*   coda.pos        bytes of the entry read so far                        *)
(*   coda.remaining  TarMemberFile._remaining                              *)
(*   coda.removed    the old object was removed because its type changed   *)
(*   coda.pc         "entry" (the entry was read from the stream),         *)
(*                   "reading" (in the loop of update_file), "updated"     *)
(*                   (update_file returned), "ReadError" (tarfile.ReadError*)
(*                   is propagating to update_dir), "DumpError" (update_dir*)
(*                   raised DumpError)                                     *)
(***************************************************************************)
CodaKinds == {"none", "file", "symlink"}

CodaInit ==
    /\ \E data \in SeqsUpTo(Byte, MaxLen), kind \in CodaKinds,
          short \in {"return", "raise"} :
         \E avail \in 0..Len(data) :
            coda = [pc |-> "entry", data |-> data, avail |-> avail, kind |-> kind,
                    short |-> short, pos |-> 0, remaining |-> 0, removed |-> FALSE]
    /\ old \in {NoFile} \cup {[exists |-> TRUE, data |-> d] : d \in SeqsUpTo(Byte, MaxLen)}
    /\ old.exists <=> coda.kind = "file"
    /\ written = <<>>
    /\ uf = [state |-> "idle"]

\* the bytes the stream still has for self._file.read(size)
StreamRead(c, size) ==
    SubSeq(c.data, c.pos + 1, Min(Min(c.pos + size, Len(c.data)), c.avail))

\* the stream ends before the bytes that self._file.read(size) is to return
StreamShort(c, size) == Min(c.pos + size, Len(c.data)) > c.avail

\* TarMemberFile.read without its test
PrematureEofNever(remaining, buf, size_is_none) == FALSE

\* TarMemberFile.read: "self._remaining > 0 and (buf == b'' or size is
\* None)", with _remaining already reduced by len(buf)
PrematureEof(remaining, buf, size_is_none) ==
    remaining > 0 /\ (buf = <<>> \/ size_is_none)

\* update_dir_from_tar for the entry up to the call of update_file: an old
\* object of another type is removed; TarMemberFile(tar, entry) and
\* UpdateFile(path) are constructed
CodaEntry ==
    /\ coda.pc = "entry"
    /\ coda' = [coda EXCEPT !.pc = "reading", !.remaining = Len(coda.data),
                            !.removed = (coda.kind = "symlink")]
    /\ uf' = NewUpdateFile
    /\ UNCHANGED <<old, written>>
    /\ UNCHANGED <<taskVars, lockVars, pruneVars, offsiteVars, rbdVars, unp, plist, moreVars>>

\* one round of the loop of update_file: data.read(block_size) returned a
\* non-empty buf, fh.write(buf)
CodaRead ==
    /\ coda.pc = "reading"
    /\ ~(StreamShort(coda, BlockSize) /\ coda.short = "raise")
    /\ LET buf == StreamRead(coda, BlockSize)
           remaining == coda.remaining - Len(buf)
       IN  /\ buf # <<>>
           /\ ~PrematureEof(remaining, buf, FALSE)
           /\ coda' = [coda EXCEPT !.pos = coda.pos + Len(buf), !.remaining = remaining]
           /\ written' = written \o buf
           /\ uf' = WriteLoop([uf EXCEPT !.buf = uf.buf \o buf])
    /\ old' = old
    /\ UNCHANGED <<taskVars, lockVars, pruneVars, offsiteVars, rbdVars, unp, plist, moreVars>>

\* data.read(block_size) returned b"": the loop of update_file ends and
\* __exit__ closes the UpdateFile; update_dir_from_tar goes on
CodaEof ==
    /\ coda.pc = "reading"
    /\ ~(StreamShort(coda, BlockSize) /\ coda.short = "raise")
    /\ StreamRead(coda, BlockSize) = <<>>
    /\ ~PrematureEof(coda.remaining, <<>>, FALSE)
    /\ coda' = [coda EXCEPT !.pc = "updated"]
    /\ uf' = [CloseLoop(uf) EXCEPT !.state = "closed"]
    /\ UNCHANGED <<old, written>>
    /\ UNCHANGED <<taskVars, lockVars, pruneVars, offsiteVars, rbdVars, unp, plist, moreVars>>

\* TarMemberFile.read raises DumpError("Premature EOF on tar stream");
\* __exit__ aborts the UpdateFile; the exception leaves update_dir, whose
\* except clause is for tarfile.ReadError only
CodaPrematureEof ==
    /\ coda.pc = "reading"
    /\ ~(StreamShort(coda, BlockSize) /\ coda.short = "raise")
    /\ StreamRead(coda, BlockSize) = <<>>
    /\ PrematureEof(coda.remaining, <<>>, FALSE)
    /\ coda' = [coda EXCEPT !.pc = "DumpError"]
    /\ uf' = [AbortCoroutine(uf) EXCEPT !.state = "aborted"]
    /\ UNCHANGED <<old, written>>
    /\ UNCHANGED <<taskVars, lockVars, pruneVars, offsiteVars, rbdVars, unp, plist, moreVars>>

\* self._file.read(size) raises tarfile.ReadError ("unexpected end of
\* data"); __exit__ aborts the UpdateFile
CodaReadError ==
    /\ coda.pc = "reading"
    /\ StreamShort(coda, BlockSize) /\ coda.short = "raise"
    /\ coda' = [coda EXCEPT !.pc = "ReadError"]
    /\ uf' = [AbortCoroutine(uf) EXCEPT !.state = "aborted"]
    /\ UNCHANGED <<old, written>>
    /\ UNCHANGED <<taskVars, lockVars, pruneVars, offsiteVars, rbdVars, unp, plist, moreVars>>

\* update_dir: "except tarfile.ReadError as e: raise DumpError(str(e))"
CodaConvert ==
    /\ coda.pc = "ReadError"
    /\ coda' = [coda EXCEPT !.pc = "DumpError"]
    /\ UNCHANGED <<ufVars, taskVars, lockVars, pruneVars, offsiteVars, rbdVars, unp, plist, moreVars>>

CodaNext ==
    \/ CodaEntry
    \/ CodaRead
    \/ CodaEof
    \/ CodaPrematureEof
    \/ CodaReadError
    \/ CodaConvert

CodasInit ==
    CodaInit /\ TaskIdle /\ LockIdle /\ PruneIdle /\ OffsiteIdle /\ RbdIdle
    /\ UnpackIdle /\ ListIdle /\ MoreIdle

SpecCoda == CodasInit /\ [][CodaNext]_vars

(***************************************************************************)
(* ArchivePacker.unpack (archivers/__init__.py).  A Python value is a      *)
(* record [t, v]: its type, "str" or "bytes", and its characters; values   *)
(* of different types are never equal.                                     *)
(*   unp.xattrs      the user.archive.* attributes of in_file, as stored   *)
(*   unp.recipients  whether archive-gpg-recipients is configured          *)
(*   unp.signing_key the setting archive-gpg-signing-key                   *)
(*   unp.hash        the SHA-256 of the content of in_file                 *)
(*   unp.gpg_exit    the exit status gpg -d would have for in_file         *)
(*   unp.status      the lines gpg would write to its status fd, each a    *)
(*                   sequence of words                                     *)
(*   unp.pc          "call" or "done" (unpack returned or raised)          *)
(*   unp.outcome     "tar" (tar was started) or the exception raised       *)
(***************************************************************************)
Str(chars) == [t |-> "str", v |-> chars]

\* bytes.decode("utf-8")
Decode(x) == [t |-> "str", v |-> x.v]

\* str.encode("utf-8")
Encode(x) == [t |-> "bytes", v |-> x.v]

\* XAttrs.__getitem__
XAttrsGet(attrs, key) == Decode(attrs[key])

\* ArchiveInfo.from_file, ArchiveInfo.__init__
from_file(attrs) ==
    [compression |-> Encode(XAttrsGet(attrs, "compression")),
     encryption |-> Encode(XAttrsGet(attrs, "encryption")),
     sha256 |-> Encode(XAttrsGet(attrs, "sha256"))]

\* ArchivePacker._compress_option
_compress_option(compression) ==
    CASE compression = Str("gzip") -> "--gzip"
      [] compression = Str("lzop") -> "--lzop"
      [] compression = Str("none") -> "None"
      [] OTHER -> "ValueError"

\* str.lower() on the words that occur
Lower(w) == IF w = "K1" THEN "k1" ELSE w

StatusLines ==
    {<<"[GNUPG:]", "GOODSIG", "K1", "user">>,
     <<"[GNUPG:]", "VALIDSIG", "k1">>,
     <<"[GNUPG:]", "GOODSIG", "k2", "user">>,
     <<"[GNUPG:]", "BADSIG", "k1", "user">>,
     <<"[GNUPG:]", "NODATA">>}

\* the loop over status_pipe: whether it sets verified (words[2] and
\* words[1] of Python are the third and the second word)
Verified(status, signing_key) ==
    \E words \in status :
        /\ Len(words) >= 3
        /\ Lower(words[3]) = Lower(signing_key)
        /\ words[2] \in {"GOODSIG", "VALIDSIG"}

\* unpack without the comparison of info.encryption with self.encryption
EncryptionDiffersNever(info_encryption, self_encryption) == FALSE

\* "info.encryption != self.encryption"
EncryptionDiffers(info_encryption, self_encryption) ==
    info_encryption # self_encryption

\* ArchivePacker.unpack: "tar" when it starts tar, else what it raises
unpack(u) ==
    LET info == from_file(u.xattrs)
        self_encryption == IF u.recipients THEN Str("gpg") ELSE Str("none")
    IN  IF EncryptionDiffers(info.encryption, self_encryption)
        THEN "ValueError: encryption"
        ELSE IF _compress_option(info.compression) = "ValueError"
        THEN "ValueError: compression"
        ELSE IF info.encryption = Str("gpg")
        THEN IF u.gpg_exit # 0 THEN "OSError: gpg failed"
             ELSE IF ~Verified(u.status, u.signing_key) THEN "OSError: not verified"
             ELSE "tar"
        ELSE IF info.encryption = Str("none")
        THEN IF Str(u.hash) # info.sha256 THEN "OSError: SHA-256 mismatch"
             ELSE "tar"
        ELSE "ValueError: unknown encryption"

Bytes(chars) == [t |-> "bytes", v |-> chars]

UnpackInit ==
    \E compression \in {"gzip", "lzop", "none", "bzip2"},
       encryption \in {"gpg", "none", "rot13"},
       sha256 \in {"h1", "h2"},
       recipients \in BOOLEAN,
       signing_key \in {"K1", "k2"},
       gpg_exit \in {0, 2},
       status \in SUBSET StatusLines :
        unp = [pc |-> "call",
               xattrs |-> [compression |-> Bytes(compression),
                           encryption |-> Bytes(encryption),
                           sha256 |-> Bytes(sha256)],
               recipients |-> recipients, signing_key |-> signing_key,
               hash |-> "h1", gpg_exit |-> gpg_exit, status |-> status,
               outcome |-> "None"]

\* unpack(in_file, out_root) is called and returns or raises
Unpack ==
    /\ unp.pc = "call"
    /\ unp' = [unp EXCEPT !.pc = "done", !.outcome = unpack(unp)]
    /\ UNCHANGED <<localVars, offsiteVars, rbdVars, coda, plist, moreVars>>

UnpackNext == Unpack

UnpacksInit ==
    UFIdle /\ TaskIdle /\ LockIdle /\ PruneIdle /\ OffsiteIdle /\ RbdIdle
    /\ CodaIdle /\ UnpackInit /\ ListIdle /\ MoreIdle

SpecUnpack == UnpacksInit /\ [][UnpackNext]_vars

(***************************************************************************)
(* PhysicalSnapshot.list (storage.py).  A string is the sequence of its    *)
(* character codes.  The snapshots of one month are modelled: the date     *)
(* code of day d is its two digits (the year and the month before them are *)
(* the same in every name).                                                *)
(*   plist.lvs   the lines "vg lv" that lvs prints for the tag             *)
(*   plist.ret   what list() returned                                      *)
(*   plist.pc    "call", "done", "OSError"                                 *)
(***************************************************************************)
ListDays == {1, 2}

\* "%d" % n
RECURSIVE Decimal(_)
Decimal(n) ==
    IF n < 10 THEN <<48 + n>> ELSE Append(Decimal(n \div 10), 48 + (n % 10))

\* int(s)
RECURSIVE ParseInt(_)
ParseInt(str) ==
    IF str = <<>> THEN 0
    ELSE 10 * ParseInt(SubSeq(str, 1, Len(str) - 1)) + (str[Len(str)] - 48)

\* the name PhysicalSnapshot.create gives revision n of day d:
\* "%s-%d" % (today, n)
LvName(d, n) == <<48 + (d \div 10), 48 + (d % 10), 45>> \o Decimal(n)

\* s < t for Python strings
RECURSIVE StrLess(_, _)
StrLess(str, t) ==
    IF t = <<>> THEN FALSE
    ELSE IF str = <<>> THEN TRUE
    ELSE IF Head(str) # Head(t) THEN Head(str) < Head(t)
    ELSE StrLess(Tail(str), Tail(t))

\* PhysicalSnapshot(vg, name): Snapshot.__init__ splits the name at "-"
PhysicalSnapshot(vg, name) ==
    [vg |-> vg, name |-> name,
     date |-> ParseInt(SubSeq(name, 1, 2)),
     revision |-> ParseInt(SubSeq(name, 4, Len(name)))]

\* an order by date and numeric revision, as Snapshot.__cmp__ has it
ByDateAndRevision(a, b) ==
    a.date < b.date \/ (a.date = b.date /\ a.revision < b.revision)

\* PhysicalSnapshot.__lt__
__lt__(a, b) ==
    a.vg < b.vg \/ (a.vg = b.vg /\ StrLess(a.name, b.name))

\* sorted(ret): Python 3 orders the objects by __lt__
RECURSIVE sorted(_)
sorted(S) ==
    IF S = {} THEN <<>>
    ELSE LET m == CHOOSE x \in S : \A y \in S \ {x} : __lt__(x, y)
         IN  <<m>> \o sorted(S \ {m})

ListInit ==
    /\ \E lvs \in SubsetsUpTo({[vg |-> 0, lv |-> LvName(d, n)] :
                                   d \in ListDays, n \in 1..MaxListRev}, MaxListed) :
          plist = [pc |-> "call", lvs |-> lvs, ret |-> <<>>]

\* PhysicalSnapshot.list(): lvs succeeded
List ==
    /\ plist.pc = "call"
    /\ plist' = [plist EXCEPT !.pc = "done",
                   !.ret = sorted({PhysicalSnapshot(l.vg, l.lv) : l \in plist.lvs})]
    /\ UNCHANGED <<localVars, offsiteVars, rbdVars, coda, unp, moreVars>>

\* PhysicalSnapshot.list(): lvs failed
ListFails ==
    /\ plist.pc = "call"
    /\ plist' = [plist EXCEPT !.pc = "OSError"]
    /\ UNCHANGED <<localVars, offsiteVars, rbdVars, coda, unp, moreVars>>

ListNext ==
    \/ List
    \/ ListFails

ListsInit ==
    UFIdle /\ TaskIdle /\ LockIdle /\ PruneIdle /\ OffsiteIdle /\ RbdIdle
    /\ CodaIdle /\ UnpackIdle /\ ListInit /\ MoreIdle

SpecList == ListsInit /\ [][ListNext]_vars

(***************************************************************************)
(* sync_backup_volume (sources/coda.py) for one unit, run after run.       *)
(*   csync.attr        user.coda.incremental-ok is set on the unit root    *)
(*   csync.requested   the incremental argument of the run                 *)
(*   csync.incremental the local variable incremental after line 287       *)
(*   csync.tries_remaining  the loop variable of the retry loop            *)
(*   csync.runs        number of runs started                              *)
(*   csync.last_full   how the most recent full backup went: "none",       *)
(*                     "running", "ok", "failed"                           *)
(*   csync.after_failed  the run began when the last full had failed       *)
(*   csync.pc          "idle", "ids" (at get_volume_ids), "dump" (in the   *)
(*                     retry loop), "gc" (at "if not incremental"),        *)
(*                     "ancient" (at volutil ancient), "done", "raised",   *)
(*                     "killed"                                            *)
(***************************************************************************)
SyncInit ==
    csync = [pc |-> "idle", attr |-> FALSE, requested |-> FALSE, incremental |-> FALSE,
             tries_remaining |-> 0, runs |-> 0, last_full |-> "none",
             after_failed |-> FALSE]

\* lines 286-289 with the attribute left in place for a full backup
AttrAfterCheckKept(attr, incremental) == attr

\* lines 286-289: the attribute after "if not incremental:
\* root_xattrs.delete(ATTR_INCREMENTAL)"
AttrAfterCheck(attr, incremental) == attr /\ incremental

\* the run has ended with an exception or was killed
SyncFailed(c, pc) ==
    [c EXCEPT !.pc = pc,
              !.last_full = IF c.incremental THEN c.last_full ELSE "failed"]

\* sync_backup_volume is called, up to get_volume_ids
SyncStart(incr) ==
    /\ csync.pc \in {"idle", "done", "raised", "killed"}
    /\ csync.runs < MaxSyncRuns
    /\ LET incremental == incr /\ csync.attr
       IN  csync' = [csync EXCEPT !.pc = "ids", !.requested = incr,
                        !.incremental = incremental,
                        !.attr = AttrAfterCheck(csync.attr, incremental),
                        !.runs = csync.runs + 1,
                        !.after_failed = (csync.last_full = "failed"),
                        !.last_full = IF incremental THEN csync.last_full ELSE "running"]
    /\ UNCHANGED <<localVars, offsiteVars, rbdVars, coda, unp, plist, parch, rs>>

\* get_volume_ids returns or raises
SyncGetIds(ok) ==
    /\ csync.pc = "ids"
    /\ csync' = IF ok THEN [csync EXCEPT !.pc = "dump",
                                         !.tries_remaining = DUMP_ATTEMPTS - 1]
                ELSE SyncFailed(csync, "raised")
    /\ UNCHANGED <<localVars, offsiteVars, rbdVars, coda, unp, plist, parch, rs>>

\* one round of the retry loop: update_dir returns, raises DumpError or
\* raises something else
SyncDump(result) ==
    /\ csync.pc = "dump"
    /\ csync' = CASE result = "ok" -> [csync EXCEPT !.pc = "gc"]
                  [] result = "DumpError" ->
                        IF csync.tries_remaining = 0 THEN SyncFailed(csync, "raised")
                        ELSE [csync EXCEPT !.tries_remaining = csync.tries_remaining - 1]
                  [] OTHER -> SyncFailed(csync, "raised")
    /\ UNCHANGED <<localVars, offsiteVars, rbdVars, coda, unp, plist, parch, rs>>

\* "if not incremental: gc_directory_tree(...)", which returns or raises
SyncGc(ok) ==
    /\ csync.pc = "gc"
    /\ csync' = IF csync.incremental \/ ok THEN [csync EXCEPT !.pc = "ancient"]
                ELSE SyncFailed(csync, "raised")
    /\ UNCHANGED <<localVars, offsiteVars, rbdVars, coda, unp, plist, parch, rs>>

\* volutil ancient, then root_xattrs.update(ATTR_INCREMENTAL, "true")
SyncAncient(ok) ==
    /\ csync.pc = "ancient"
    /\ csync' = IF ok
                THEN [csync EXCEPT !.pc = "done", !.attr = TRUE,
                         !.last_full = IF csync.incremental THEN csync.last_full ELSE "ok"]
                ELSE SyncFailed(csync, "raised")
    /\ UNCHANGED <<localVars, offsiteVars, rbdVars, coda, unp, plist, parch, rs>>

\* the process is killed while sync_backup_volume runs
SyncKill ==
    /\ csync.pc \in {"ids", "dump", "gc", "ancient"}
    /\ csync' = SyncFailed(csync, "killed")
    /\ UNCHANGED <<localVars, offsiteVars, rbdVars, coda, unp, plist, parch, rs>>

SyncNext ==
    \/ \E incr \in BOOLEAN : SyncStart(incr)
    \/ \E ok \in BOOLEAN : SyncGetIds(ok)
    \/ \E result \in {"ok", "DumpError", "OSError"} : SyncDump(result)
    \/ \E ok \in BOOLEAN : SyncGc(ok)
    \/ \E ok \in BOOLEAN : SyncAncient(ok)
    \/ SyncKill

SyncsInit ==
    UFIdle /\ TaskIdle /\ LockIdle /\ PruneIdle /\ OffsiteIdle /\ RbdIdle
    /\ CodaIdle /\ UnpackIdle /\ ListIdle
    /\ SyncInit /\ PruneArchivesIdle /\ ResyncIdle

SpecSync == SyncsInit /\ [][SyncNext]_vars

(***************************************************************************)
(* prune_archives (archivers/__init__.py).  The set of day d is named      *)
(* LvName(d, 1).                                                           *)
(*   parch.sets        what list_sets() reports: per set name its          *)
(*                     [complete, protected]                               *)
(*   parch.keep_count  the keep-count of the profile                       *)
(*   parch.listed      the set names SnapshotArchiveSet.list returned      *)
(*   parch.delete      the list delete, what is left of it                 *)
(*   parch.before      parch.sets as it was when prune_archives began      *)
(*   parch.pc          "call", "deleting", "done", "raised"                *)
(***************************************************************************)
PruneArchivesInit ==
    \E days \in SUBSET (1..MaxSetDays), keep_count \in 0..MaxKeep :
        \E meta \in [{LvName(d, 1) : d \in days} ->
                         [complete : BOOLEAN, protected : BOOLEAN]] :
            parch = [pc |-> "call", sets |-> meta, keep_count |-> keep_count,
                     listed |-> <<>>, delete |-> <<>>, before |-> meta]

\* sorted(archiver.list_sets().items()): the names in string order
RECURSIVE SortedNames(_)
SortedNames(S) ==
    IF S = {} THEN <<>>
    ELSE LET m == CHOOSE x \in S : \A y \in S \ {x} : StrLess(x, y)
         IN  <<m>> \o SortedNames(S \ {m})

\* q[:-k] of Python for k >= 0: q[:-0] is q[:0], the empty list
AllButLast(q, k) ==
    IF k = 0 \/ k >= Len(q) THEN <<>> ELSE SubSeq(q, 1, Len(q) - k)

\* prune_archives up to the loop: the list delete
ToDelete(sets, keep_count) ==
    LET names == SortedNames(DOMAIN sets)
        incomplete == SelectSeq(AllButLast(names, 1), LAMBDA n : ~sets[n].complete)
        complete == AllButLast(SelectSeq(names, LAMBDA n : sets[n].complete), keep_count)
    IN  SelectSeq(incomplete \o complete, LAMBDA n : ~sets[n].protected)

\* prune_archives is called: list, select
PruneArchivesSelect ==
    /\ parch.pc = "call"
    /\ parch' = [parch EXCEPT !.pc = "deleting",
                              !.listed = SortedNames(DOMAIN parch.sets),
                              !.delete = ToDelete(parch.sets, parch.keep_count)]
    /\ UNCHANGED <<localVars, offsiteVars, rbdVars, coda, unp, plist, csync, rs>>

\* one round of "for set in delete: set.delete()", which returns or raises
PruneArchivesDelete(ok) ==
    /\ parch.pc = "deleting"
    /\ parch.delete # <<>>
    /\ parch' = IF ok
                THEN [parch EXCEPT !.delete = Tail(parch.delete),
                         !.sets = [n \in DOMAIN parch.sets \ {Head(parch.delete)} |->
                                      parch.sets[n]]]
                ELSE [parch EXCEPT !.pc = "raised"]
    /\ UNCHANGED <<localVars, offsiteVars, rbdVars, coda, unp, plist, csync, rs>>

\* the loop ends, prune_archives returns
PruneArchivesReturn ==
    /\ parch.pc = "deleting"
    /\ parch.delete = <<>>
    /\ parch' = [parch EXCEPT !.pc = "done"]
    /\ UNCHANGED <<localVars, offsiteVars, rbdVars, coda, unp, plist, csync, rs>>

PruneArchivesNext ==
    \/ PruneArchivesSelect
    \/ \E ok \in BOOLEAN : PruneArchivesDelete(ok)
    \/ PruneArchivesReturn

PruneArchivesInits ==
    UFIdle /\ TaskIdle /\ LockIdle /\ PruneIdle /\ OffsiteIdle /\ RbdIdle
    /\ CodaIdle /\ UnpackIdle /\ ListIdle
    /\ SyncIdle /\ PruneArchivesInit /\ ResyncIdle

SpecPruneArchives == PruneArchivesInits /\ [][PruneArchivesNext]_vars

(***************************************************************************)
(* download_archives with the quota it is given by _request_download_quota *)
(* (archivers/aws.py), for one instance that has the ledger to itself and  *)
(* with every job completing.  Hours are counted from the current          *)
(* timeslot, so clock.hour stays 0 and the bandwidth attributes move one   *)
(* hour down when the hour ends.  Time passes while the generator waits in *)
(* finished_queue.get; the time the launch loop takes is not modelled.     *)
(* The wait times out at timeslot + 1 hour + TIMESLOT_SLOP, which is the   *)
(* next moment the clock leaves the slop window at the start of an hour.   *)
(***************************************************************************)
\* the archive sizes tried: empty, one that any rate covers in one request,
\* and one that needs more than MaxRate bytes per hour
RetrieveSizes == {0, 1, MaxDownload}

RetrieveInit ==
    /\ \E n \in 1..MaxArchives :
         archives \in [1..n -> [size : RetrieveSizes, found : BOOLEAN]]
    /\ state = [name |-> 0]
    /\ dl = "start"
    /\ jobs = [n \in DOMAIN archives |-> <<>>]
    /\ yielded = <<>>
    /\ clock \in [hour : {0}, phase : {"begin", "mid", "end"}]
    /\ max_rate \in 1..MaxRate
    /\ ledger = [serial |-> 0, bw |-> <<>>, max_bw_month |-> 0]
    /\ inst = <<>>
    /\ initiated = <<>>

\* the request size _request_download_quota(rate, download_size) returns
\* in the current timeslot, whose attributes are bw
request_size_of(rate, bw, phase, download_size) ==
    LET allocation == Allocation(rate, bw, 0, download_size)
    IN  IF phase # "mid" THEN 0
        ELSE IF allocation <= 0 THEN 0
        ELSE Min(allocation * BILLING_RETRIEVAL_HOURS, download_size)

\* the body of "while not state.requests_done": _request_download_quota,
\* then break if it gave nothing, else initiate_job, the thread and
\* state.requested(request_size)
RetrieveRequest ==
    /\ dl = "launch"
    /\ ~state.requests_done
    /\ LET data == FreshBw(ledger.bw, 0)
           request_size == request_size_of(max_rate, data, clock.phase, state.remaining)
           allocation == Allocation(max_rate, data, 0, state.remaining)
       IN  IF clock.phase = "mid" /\ ~NonIncreasing(data, 0)
           THEN /\ dl' = "raised"
                /\ ledger' = [ledger EXCEPT !.bw = data]
                /\ UNCHANGED <<state, jobs>>
           ELSE IF request_size = 0
           THEN /\ dl' = "wait"
                /\ ledger' = [ledger EXCEPT !.bw = data]
                /\ UNCHANGED <<state, jobs>>
           ELSE /\ ledger' = [serial |-> ledger.serial + 1,
                              bw |-> Allocate(data, 0, allocation),
                              max_bw_month |-> Max(GetBw(data, 0) + allocation,
                                                   ledger.max_bw_month)]
                /\ jobs' = [jobs EXCEPT ![state.name] =
                               Append(@, [offset |-> state.offset, len |-> request_size,
                                          status |-> "running"])]
                /\ state' = requested(state, request_size)
                /\ dl' = IF state'.error THEN "raised" ELSE "launch"
    /\ UNCHANGED <<archives, yielded, clock, max_rate, inst, initiated>>
    /\ UNCHANGED <<localVars, uploadVars, archiveVars, rbdVars, otherVars>>

\* the bandwidth attributes an hour later, counted from the new timeslot;
\* that of the hour that ended is stale and is dropped
HourLater(bw) ==
    [h \in {k - 1 : k \in DOMAIN bw \ {0}} |-> bw[h + 1]]

\* time passes while the generator waits: to the slop window at the end of
\* the hour, and on to the start of the next hour
RetrieveTick ==
    /\ dl = "wait"
    /\ clock.phase \in {"mid", "end"}
    /\ IF clock.phase = "mid"
       THEN /\ clock' = [clock EXCEPT !.phase = "end"]
            /\ ledger' = ledger
       ELSE /\ clock' = [clock EXCEPT !.phase = "begin"]
            /\ ledger' = [ledger EXCEPT !.bw = HourLater(ledger.bw)]
    /\ UNCHANGED <<downloadVars, max_rate, inst, initiated>>
    /\ UNCHANGED <<localVars, uploadVars, archiveVars, rbdVars, otherVars>>

\* finished_queue.get timed out (Queue.Empty) when the slop window at the
\* start of the hour ended: break, and the launch loop runs again
RetrieveTimeout ==
    /\ dl = "wait"
    /\ clock.phase = "begin"
    /\ clock' = [clock EXCEPT !.phase = "mid"]
    /\ dl' = "launch"
    /\ UNCHANGED <<archives, state, jobs, yielded, max_rate, ledger, inst, initiated>>
    /\ UNCHANGED <<localVars, uploadVars, archiveVars, rbdVars, otherVars>>

\* the result of some job comes off finished_queue
RetrieveGet ==
    \E n \in DOMAIN jobs, exception \in BOOLEAN :
        \E k \in DOMAIN jobs[n] : DlGet(n, k, exception)

RetrieveNext ==
    \/ DlCollect
    \/ RetrieveRequest
    \/ DlRequestsDone
    \/ RetrieveGet
    \/ RetrieveTick
    \/ RetrieveTimeout

RetrievesInit ==
    UFIdle /\ TaskIdle /\ LockIdle /\ PruneIdle /\ UploadIdle /\ RetrieveInit
    /\ ArchiveIdle /\ RbdIdle /\ OtherIdle

SpecRetrieve == RetrievesInit /\ [][RetrieveNext]_vars

\* the generator runs whenever it can, time passes, and every job that was
\* initiated completes: its result is taken off finished_queue in one of
\* the waits
SpecRetrieveFair ==
    /\ SpecRetrieve
    /\ WF_vars(DlCollect)
    /\ WF_vars(RetrieveRequest)
    /\ WF_vars(DlRequestsDone)
    /\ WF_vars(RetrieveTick)
    /\ WF_vars(RetrieveTimeout)
    /\ SF_vars(RetrieveGet)

(***************************************************************************)
(* AWSArchiver.resync and delete_set next to upload_archive                *)
(* (archivers/aws.py).  The archive resync and archive prune commands take *)
(* no lock, so they run while uploads are in progress.  vault, item and up *)
(* are those of upload_archive.                                            *)
(*   rs   pc: the position in resync: "idle", "inventory" (the inventory   *)
(*        job has delivered its output), "delete" (the domain was walked), *)
(*        "done"; vault_archives: the dict of that name; ds: the position  *)
(*        in delete_set: "idle", "selected", "items" (the records are      *)
(*        deleted), "done"; aids: the list of that name                    *)
(***************************************************************************)
ResyncInit ==
    /\ UploadInit
    /\ rs = [pc |-> "idle", vault_archives |-> {}, ds |-> "idle", aids |-> {}]

\* resync: retrieve_inventory, _wait_for_job and job.get_output(): the
\* inventory lists the archives the vault had when it was made; how stale
\* it is by the time it is used is the time that passes before the next
\* steps
ResyncInventory ==
    /\ rs.pc = "idle"
    /\ rs' = [rs EXCEPT !.pc = "inventory", !.vault_archives = vault]
    /\ UNCHANGED <<vault, item, up>>
    /\ UNCHANGED <<localVars, downloadVars, quotaVars, archiveVars, rbdVars>>
    /\ UNCHANGED <<coda, unp, plist, csync, parch>>

\* what is left of vault_archives after "Walk archives in domain": the
\* aws-aid of every record is popped
AfterWalk(vault_archives, aid) == vault_archives \ {aid}

\* resync: select aws-aid from the domain, vault_archives.pop for each
ResyncWalk ==
    /\ rs.pc = "inventory"
    /\ rs' = [rs EXCEPT !.pc = "delete",
                        !.vault_archives = AfterWalk(rs.vault_archives, item)]
    /\ UNCHANGED <<vault, item, up>>
    /\ UNCHANGED <<localVars, downloadVars, quotaVars, archiveVars, rbdVars>>
    /\ UNCHANGED <<coda, unp, plist, csync, parch>>

\* resync: "for aid in vault_archives: self._vault.delete_archive(aid)",
\* one archive
ResyncDelete(aid) ==
    /\ rs.pc = "delete"
    /\ aid \in rs.vault_archives
    /\ vault' = vault \ {aid}
    /\ rs' = [rs EXCEPT !.vault_archives = @ \ {aid}]
    /\ UNCHANGED <<item, up>>
    /\ UNCHANGED <<localVars, downloadVars, quotaVars, archiveVars, rbdVars>>
    /\ UNCHANGED <<coda, unp, plist, csync, parch>>

\* resync: the loop is over
ResyncReturn ==
    /\ rs.pc = "delete"
    /\ rs.vault_archives = {}
    /\ rs' = [rs EXCEPT !.pc = "done"]
    /\ UNCHANGED <<vault, item, up>>
    /\ UNCHANGED <<localVars, downloadVars, quotaVars, archiveVars, rbdVars>>
    /\ UNCHANGED <<coda, unp, plist, csync, parch>>

\* delete_set: the select of the archive records of the set
DeleteSetSelect ==
    /\ rs.ds = "idle"
    /\ rs' = [rs EXCEPT !.ds = "selected", !.aids = IF item = 0 THEN {} ELSE {item}]
    /\ UNCHANGED <<vault, item, up>>
    /\ UNCHANGED <<localVars, downloadVars, quotaVars, archiveVars, rbdVars>>
    /\ UNCHANGED <<coda, unp, plist, csync, parch>>

\* delete_set: batch_delete_attributes(items), the items being the set
\* item and the archive records that were selected
DeleteSetItems ==
    /\ rs.ds = "selected"
    /\ item' = IF rs.aids = {} THEN item ELSE 0
    /\ rs' = [rs EXCEPT !.ds = "items"]
    /\ UNCHANGED <<vault, up>>
    /\ UNCHANGED <<localVars, downloadVars, quotaVars, archiveVars, rbdVars>>
    /\ UNCHANGED <<coda, unp, plist, csync, parch>>

\* delete_set: "for aid in aids: self._vault.delete_archive(aid)"
DeleteSetArchives ==
    /\ rs.ds = "items"
    /\ vault' = vault \ rs.aids
    /\ rs' = [rs EXCEPT !.ds = "done"]
    /\ UNCHANGED <<item, up>>
    /\ UNCHANGED <<localVars, downloadVars, quotaVars, archiveVars, rbdVars>>
    /\ UNCHANGED <<coda, unp, plist, csync, parch>>

ResyncNext ==
    \/ \E u \in DOMAIN up, how \in {"ok", "error"} : UploadCreate(u, how)
    \/ \E u \in DOMAIN up, how \in {"ok", "error"} : UploadPut(u, how)
    \/ \E u \in DOMAIN up : UploadDiscard(u)
    \/ ResyncInventory
    \/ ResyncWalk
    \/ \E aid \in 1..PriorAid : ResyncDelete(aid)
    \/ ResyncReturn
    \/ DeleteSetSelect
    \/ DeleteSetItems
    \/ DeleteSetArchives

ResyncsInit ==
    UFIdle /\ TaskIdle /\ LockIdle /\ PruneIdle /\ ResyncInit /\ DownloadIdle /\ QuotaIdle
    /\ ArchiveIdle /\ RbdIdle /\ CodaIdle /\ UnpackIdle /\ ListIdle /\ SyncIdle
    /\ PruneArchivesIdle

SpecResync == ResyncsInit /\ [][ResyncNext]_vars

(***************************************************************************)
(* PhysicalSnapshot.create (storage.py), followed by list().               *)
(*   plist.today    the day create runs on                                 *)
(*   plist.before   the lvs lines of the snapshots that existed when       *)
(*                  create was called; none is dated after today           *)
(*   plist.created  the name of the snapshot create made (<<>>: none)      *)
(*   plist.pc       "create", then that of list(); "CalledProcessError"    *)
(*                  when lvcreate failed                                   *)
(***************************************************************************)
\* the last revision number "for n in range(1, 100)" tries
LastRevisionTried == 99

CreateInit ==
    \E day \in ListDays :
      \E lvs \in SubsetsUpTo({[vg |-> 0, lv |-> LvName(d, n)] :
                                 d \in {k \in ListDays : k <= day},
                                 n \in 1..MaxListRev}, MaxListed) :
          plist = [pc |-> "create", lvs |-> lvs, ret |-> <<>>,
                   today |-> day, before |-> lvs, created |-> <<>>]

\* the revisions n of the day for which "sudo lvs vg/<day>-n" finds nothing
Unused(lvs, day) ==
    {n \in 1..LastRevisionTried : [vg |-> 0, lv |-> LvName(day, n)] \notin lvs}

\* "for n in range(1, 100)": the first n for which lvs fails, 0 when the
\* loop runs out
FirstUnused(lvs, day) ==
    IF Unused(lvs, day) = {} THEN 0
    ELSE CHOOSE n \in Unused(lvs, day) : \A m \in Unused(lvs, day) : n <= m

\* PhysicalSnapshot.create: the unused name is found and lvcreate makes the
\* snapshot, or fails
Create(ok) ==
    /\ plist.pc = "create"
    /\ LET n == FirstUnused(plist.lvs, plist.today)
       IN  IF n = 0 THEN plist' = [plist EXCEPT !.pc = "OSError"]
           ELSE IF ~ok THEN plist' = [plist EXCEPT !.pc = "CalledProcessError"]
           ELSE plist' = [plist EXCEPT
                            !.pc = "call",
                            !.created = LvName(plist.today, n),
                            !.lvs = @ \cup {[vg |-> 0, lv |-> LvName(plist.today, n)]}]
    /\ UNCHANGED <<localVars, offsiteVars, rbdVars, coda, unp, moreVars>>

CreateNext ==
    \/ \E ok \in BOOLEAN : Create(ok)
    \/ List
    \/ ListFails

CreatesInit ==
    UFIdle /\ TaskIdle /\ LockIdle /\ PruneIdle /\ OffsiteIdle /\ RbdIdle
    /\ CodaIdle /\ UnpackIdle /\ CreateInit /\ MoreIdle

SpecCreate == CreatesInit /\ [][CreateNext]_vars

\* C1: once UpdateFile is closed, the destination file exists and holds
\* exactly the concatenation of the buffers passed to write(), whatever the
\* old file was and however the data was split into write() calls.
C1_FinalContent ==
    uf.state = "closed" => uf.path.exists /\ uf.path.data = written

\* C1 witness: an existing file with a non-empty common prefix was replaced
\* by different data longer than one block.
C1_Witness ==
    /\ uf.state = "closed"
    /\ old.exists /\ old.data # written
    /\ uf.prefix_len > 0 /\ Len(written) > BlockSize
    /\ uf.renames = 1

\* C2: after close, modified is False exactly when the destination existed
\* with content identical to the new data, and True in every other case.
C2_Modified ==
    uf.state = "closed" =>
        /\ uf.modified \in {"True", "False"}
        /\ (uf.modified = "False") <=> (old.exists /\ old.data = written)

\* C2 witness: identical data spanning several blocks was written and
\* reported as not modified.
C2_Witness ==
    /\ uf.state = "closed"
    /\ uf.modified = "False"
    /\ Len(written) > BlockSize

(***************************************************************************)
(* Claims about Task and the run command, under SpecRun                    *)
(***************************************************************************)
AllOk(s) == \A u \in Units(s) : outcome[s][u] = "ok"

C4_ExactlyOnce ==
    \A s \in Sources :
        run.waited[s] # "none" => \A u \in Units(s) : executions[s][u] = 1

Inside(name) == {p \in Procs : proc[p].pc = "work" /\ LockName(proc[p].cmd) = name}

\* C6: for each lock name at most one process is inside the lockfile
\* context, and it is the holder of the flock; an attempt to enter never
\* blocks: at "lock" the step that enters or fails is always enabled, and
\* a process that met a held lock is at "conflict", not inside.
C6_MutualExclusion ==
    /\ \A n \in LockNames :
          /\ Cardinality(Inside(n)) <= 1
          /\ \A p \in Inside(n) : flock[n] = p
    /\ \A p \in Procs : proc[p].pc = "lock" => ENABLED LockEnter(p)
    /\ \A p \in Procs : proc[p].pc = "conflict" => p \notin Inside(LockName(proc[p].cmd))

\* C6 witness: one run is inside the "backup" lock while another run was
\* refused with LockConflict.
C6_Witness ==
    \E p, q \in Procs :
        /\ proc[p].cmd = "run" /\ proc[p].pc = "work"
        /\ proc[q].cmd = "run" /\ proc[q].pc = "conflict"

\* C7: every command that is changing something holds the lock of its
\* command, and no two processes running the same command are both
\* changing things.
C7_LockedMutation ==
    /\ \A p \in Procs : Mutating(p) => /\ LockName(proc[p].cmd) # ""
                                       /\ flock[LockName(proc[p].cmd)] = p
    /\ \A p, q \in Procs :
          p # q /\ proc[p].cmd = proc[q].cmd => ~(Mutating(p) /\ Mutating(q))

(***************************************************************************)
(* Claims about the retention planner, under SpecPrune                     *)
(***************************************************************************)
\* the chronologically oldest / newest of a non-empty set of snapshots
Oldest(S) == CHOOSE x \in S : \A y \in S : Cmp(x, y) <= 0
Newest(S) == CHOOSE x \in S : \A y \in S : Cmp(x, y) >= 0
\* the last revision of the oldest date
LastOfOldestDate(S) == Newest({x \in S : x.date = Oldest(S).date})

C10_Idempotent ==
    pruned = "yes" => select_snapshots_to_remove(settings, snapshots, today) = {}

\* C11: when two or more upload_archive calls for the same (set, unit) have
\* all returned, in whatever order their steps were interleaved, the item of
\* (set, unit) exists, the archive it names is in the vault, and the vault
\* holds no other archive: every archive of a losing call was deleted.
C11_OneRecordNoOrphan ==
    (Len(up) >= 2 /\ \A u \in DOMAIN up : up[u] = "done")
        => /\ item # 0
           /\ item \in vault
           /\ vault = {item}

\* C11 witness: three concurrent calls have all returned, the record names
\* the archive of a call other than the first, and only that archive is left.
C11_Witness ==
    /\ Len(up) = 3
    /\ \A u \in DOMAIN up : up[u] = "done"
    /\ item \in {2, 3}
    /\ vault = {item}

\* the results yielded for archive n
YieldsOf(n) == SelectSeq(yielded, LAMBDA y : y.name = n)

\* byte-range requests were issued for n and cover 0 .. size-1 without gap
\* or overlap
Covered(n) ==
    /\ jobs[n] # <<>>
    /\ jobs[n][1].offset = 0
    /\ \A k \in 1..(Len(jobs[n]) - 1) :
         jobs[n][k + 1].offset = jobs[n][k].offset + jobs[n][k].len
    /\ jobs[n][Len(jobs[n])].offset + jobs[n][Len(jobs[n])].len = archives[n].size

\* C12: an archive has been yielded as successful exactly when requests
\* covering its whole size were issued and the result of every one of them
\* was taken from the queue without an error; an archive one of whose
\* sub-requests failed is never yielded as successful.
C12_SuccessIffAllOk ==
    \A n \in DOMAIN archives :
        /\ ([name |-> n, ok |-> TRUE] \in Range(yielded))
             <=> (Covered(n) /\ \A k \in DOMAIN jobs[n] : jobs[n][k].status = "ok")
        /\ (\E k \in DOMAIN jobs[n] : jobs[n][k].status = "failed")
             => [name |-> n, ok |-> TRUE] \notin Range(yielded)

\* C12 witness: an archive fetched with two sub-requests that completed out
\* of order was yielded as successful while another archive failed.
C12_Witness ==
    \E n \in DOMAIN archives, m \in DOMAIN archives :
        /\ [name |-> n, ok |-> TRUE] \in Range(yielded)
        /\ Len(jobs[n]) = 2
        /\ [name |-> m, ok |-> FALSE] \in Range(yielded)
        /\ archives[m].found

\* C13: no archive is yielded twice; an archive with a failed sub-request
\* whose result was taken from the queue has been yielded with its exception
\* (at the first such failure: the yield is there as soon as one failure is
\* seen, and there is never a second one); when the generator returns, every
\* requested archive has been yielded exactly once.
C13_OneResultEach ==
    \A n \in DOMAIN archives :
        /\ Len(YieldsOf(n)) <= 1
        /\ (\E k \in DOMAIN jobs[n] : jobs[n][k].status = "failed")
             => YieldsOf(n) = <<[name |-> n, ok |-> FALSE]>>
        /\ dl = "returned" => Len(YieldsOf(n)) = 1
        /\ dl # "raised"

\* C13 witness: the generator returned after an archive had two failed
\* sub-requests and one successful one.
C13_Witness ==
    /\ dl = "returned"
    /\ \E n \in DOMAIN archives :
         /\ Len(jobs[n]) = 3
         /\ Cardinality({k \in DOMAIN jobs[n] : jobs[n][k].status = "failed"}) = 2
         /\ jobs[n][1].status = "failed"

\* the sum of f[h] over the timeslots lo .. hi for which initiated is kept
RECURSIVE SumSlots(_, _, _)
SumSlots(f, lo, hi) ==
    IF lo > hi THEN 0
    ELSE (IF lo \in DOMAIN f THEN f[lo] ELSE 0) + SumSlots(f, lo + 1, hi)

BytesInitiated == [h \in DOMAIN initiated |-> initiated[h].bytes]

HourlyInitiated == [h \in DOMAIN initiated |-> initiated[h].hourly]

\* C14 as claimed: the bytes for which retrievals are initiated within one
\* timeslot (one hour), summed over all instances, never exceed max_rate.
C14_BytesPerHourWithinRate ==
    \A h \in DOMAIN initiated : initiated[h].bytes <= max_rate

\* C14 amended: what stays within max_rate is the bandwidth charged to a
\* timeslot, a quarter (rounded up) of every request initiated in that slot
\* or in one of the three slots before it; the bytes initiated within one
\* timeslot stay within 4 * max_rate.
C14_HourlyChargeWithinRate ==
    \A h \in DOMAIN initiated :
        /\ SumSlots(HourlyInitiated, h - (BILLING_RETRIEVAL_HOURS - 1), h) <= max_rate
        /\ initiated[h].bytes <= BILLING_RETRIEVAL_HOURS * max_rate

\* C14 witness: in one timeslot more than max_rate bytes were initiated, by
\* more than one request, and the slot is charged exactly max_rate.
C14_Witness ==
    \E h \in DOMAIN initiated :
        /\ initiated[h].bytes > max_rate
        /\ initiated[h].hourly = max_rate
        /\ initiated[h].bytes < BILLING_RETRIEVAL_HOURS * initiated[h].hourly
        /\ ledger.serial >= 2

\* C15: in any 4 consecutive timeslots the bytes for which retrievals are
\* initiated, summed over all instances, never exceed 4 * max_rate.
C15_FourSlotsWithinFourRate ==
    \A h \in DOMAIN initiated :
        SumSlots(BytesInitiated, h, h + BILLING_RETRIEVAL_HOURS - 1)
            <= BILLING_RETRIEVAL_HOURS * max_rate

\* C15 witness: 4 * max_rate bytes were initiated in timeslot 0 and again in
\* timeslot 4, so both windows 0..3 and 1..4 are exactly full.
C15_Witness ==
    /\ initiated[0].bytes = BILLING_RETRIEVAL_HOURS * max_rate
    /\ initiated[MaxHour].bytes = BILLING_RETRIEVAL_HOURS * max_rate
    /\ MaxHour >= BILLING_RETRIEVAL_HOURS

\* C16: the counters of the current hour and the three hours after it are
\* non-increasing in the record as _get_bandwidth_item returns it, at any
\* time, and no call has failed the assertion of _request_download_quota.
C16_CountersNonIncreasing ==
    /\ NonIncreasing(FreshBw(ledger.bw, clock.hour), clock.hour)
    /\ \A i \in DOMAIN inst : inst[i].pc # "assert"

\* C16 witness: in a later timeslot an instance has read a record written
\* by several allocations whose counters differ, passed the assertion and is
\* about to write its allocation.
C16_Witness ==
    \E i \in DOMAIN inst :
        /\ inst[i].pc = "put"
        /\ inst[i].last_serial = ledger.serial
        /\ ledger.serial >= 2
        /\ clock.hour > 0
        /\ GetBw(ledger.bw, clock.hour) > GetBw(ledger.bw, clock.hour + 1)

C18_CompleteSetFrozen ==
    [][\A s \in DOMAIN asets :
         asets[s].complete =>
            \/ asets'[s] = EmptySet
            \/ /\ asets'[s] = asets[s]
               /\ ~(arun.pc = "task" /\ arun'.pc = "done" /\ arun.snap = s)]_vars

\* C19: a run of backup_image that began with user.rbd.pending-snapshot
\* set to S1 and the .pending file present creates a source snapshot only
\* after it has finished the interrupted incremental: the mirror holds the
\* content of S1, user.rbd.snapshot is S1, the pending attribute and the
\* .pending file are gone and the old snapshot is deleted on the source.
C19_PendingFinishedFirst ==
    (rb.start_pending # 0 /\ rb.created) =>
        /\ rb.seen.snapshot = rb.start_pending
        /\ rb.seen.data = rb.start_pending
        /\ rb.seen.pending = 0
        /\ ~rb.seen.pendfile

\* C20: a run of backup_image that found the base snapshot gone from the
\* source, or belonging to another image than the configured one, has
\* discarded the mirror, and when it ends without a failure of the export
\* the mirror holds a full backup: its content and user.rbd.snapshot are
\* those of the snapshot the run created.
C20_BaseGoneFullBackup ==
    rb.base \in {"missing", "foreign"} =>
        /\ rb.discarded
        /\ rb.pc = "done" => /\ mirror.exists
                             /\ mirror.snapshot = rb.new_snapshot
                             /\ mirror.data = rb.new_snapshot

\* C23: when writing through UpdateFile was aborted, by an exception that
\* left the context or by an I/O error of the coroutine, no temporary file
\* is left, nothing was renamed over the destination and the destination
\* is what it was before.
C23_AbortKeepsDestination ==
    uf.state \in {"aborted", "io_error"} =>
        /\ ~uf.tmp.exists
        /\ uf.renames = 0
        /\ uf.path = old

\* C23 witness: the UpdateFile was aborted after it had created a temporary
\* file for data that differs from the existing file.
C23_Witness ==
    /\ uf.state = "aborted"
    /\ uf.coroutine = "None"
    /\ uf.temps = 1
    /\ old.exists /\ uf.prefix_len > 0
    /\ ~uf.tmp.exists

\* C24: when the data written is byte-identical to the existing file, after
\* close no temporary file was ever created, nothing was renamed and the
\* destination is the untouched old file.
C24_IdenticalLeavesFile ==
    (uf.state = "closed" /\ old.exists /\ written = old.data) =>
        /\ uf.temps = 0
        /\ uf.renames = 0
        /\ ~uf.tmp.exists
        /\ uf.path = old

\* C24 witness: identical, non-empty data of more than one block was
\* written in several calls and the file closed.
C24_Witness ==
    /\ uf.state = "closed"
    /\ old.exists /\ written = old.data
    /\ Len(written) > BlockSize
    /\ uf.prefix_len = Len(written)
    /\ uf.temps = 0

\* C25: a call of upload_archive whose metadata write failed with an error
\* other than the lost conditional write has deleted its archive when it
\* re-raises; once every call has returned or raised, the vault holds no
\* archive other than the one the metadata record names.
C25_NoArchiveWithoutRecord ==
    /\ \A u \in DOMAIN up : up[u] = "reraised" => u \notin vault
    /\ (\A u \in DOMAIN up : up[u] \in {"done", "raised", "reraised"})
          => vault \subseteq {item}

\* C25 witness: a call created its archive, failed to store the record and
\* re-raised, while another call stored the record for its own archive.
C25_Witness ==
    /\ \E u \in DOMAIN up : up[u] = "reraised"
    /\ \A u \in DOMAIN up : up[u] \in {"done", "reraised"}
    /\ item \in DOMAIN up
    /\ vault = {item}

\* C27: whatever the interleaving of the instances, every counter of the
\* bandwidth record that has not been deleted as stale equals the sum of the
\* allocations that were written successfully for the timeslots covering
\* its hour; no allocation is lost or counted twice, and a counter that is
\* absent stands for no allocation.
C27_CountersSumAllocations ==
    /\ \A h \in DOMAIN ledger.bw :
         ledger.bw[h] = SumSlots(HourlyInitiated, h - (BILLING_RETRIEVAL_HOURS - 1), h)
    /\ \A h \in clock.hour..(MaxHour + BILLING_RETRIEVAL_HOURS - 1) :
         GetBw(ledger.bw, h) = SumSlots(HourlyInitiated, h - (BILLING_RETRIEVAL_HOURS - 1), h)

\* C27 witness: an instance has lost the race for the record to the other
\* one, whose allocation the counters hold, and is about to read it again;
\* allocations of an earlier timeslot are in the record too.
C27_Witness ==
    /\ \E i \in Instances : inst[i].pc = "retry"
    /\ ledger.serial >= 2
    /\ clock.hour \in DOMAIN ledger.bw
    /\ clock.hour >= 1
    /\ initiated[clock.hour].hourly > 0
    /\ initiated[clock.hour - 1].hourly > 0

\* C28: a lock is held only by a process that is inside the lock context of
\* that name: a process that left the context, normally, by an exception or
\* by a user interrupt, holds no lock, and a process about to take a lock
\* that nobody is inside of gets it.
C28_ReleasedOnLeave ==
    /\ \A n \in LockNames : \A p \in Procs :
          flock[n] = p => proc[p].pc = "work" /\ LockName(proc[p].cmd) = n
    /\ \A p \in Procs :
          (proc[p].pc = "lock" /\ mounted /\ Inside(LockName(proc[p].cmd)) = {})
             => flock[LockName(proc[p].cmd)] = 0

\* C28 witness: a run was interrupted inside the lock context and another
\* run, invoked with the same lock name, is inside it now.
C28_Witness ==
    \E p, q \in Procs :
        /\ proc[p].cmd = "run" /\ proc[p].pc = "interrupted"
        /\ proc[q].cmd = "run" /\ proc[q].pc = "work"
        /\ flock[LockName("run")] = q

\* the byte-range requests issued for n so far, in the order of their
\* initiate_job calls, start at offset 0, are each at least one byte long,
\* each begin where the one before ended, and end within the archive
RequestsContiguous(n) ==
    /\ jobs[n] # <<>> => jobs[n][1].offset = 0
    /\ \A k \in DOMAIN jobs[n] :
         /\ jobs[n][k].len >= 1
         /\ jobs[n][k].offset + jobs[n][k].len <= archives[n].size
    /\ \A k \in 1..(Len(jobs[n]) - 1) :
         jobs[n][k + 1].offset = jobs[n][k].offset + jobs[n][k].len

\* the request loop is past archive n: n is neither the current item nor
\* in _pending
RequestsFinished(n) ==
    /\ archives[n].found
    /\ dl # "start"
    /\ state.name # n
    /\ \A i \in DOMAIN state.pending : state.pending[i].name # n

\* C29: the byte-range sub-requests of one archive are issued in ascending
\* offset order, start at offset 0, are contiguous and do not overlap; once
\* the request loop has left an archive none of whose sub-requests failed,
\* they cover exactly bytes 0 .. size-1.
C29_RangesContiguous ==
    \A n \in DOMAIN archives :
        /\ RequestsContiguous(n)
        /\ (RequestsFinished(n)
              /\ \A k \in DOMAIN jobs[n] : jobs[n][k].status # "failed")
             => Covered(n)

\* C29 witness: the loop has left an archive that was requested in three
\* sub-requests, none of which failed.
C29_Witness ==
    \E n \in DOMAIN archives :
        /\ RequestsFinished(n)
        /\ Len(jobs[n]) = 3
        /\ \A k \in DOMAIN jobs[n] : jobs[n][k].status # "failed"
        /\ Covered(n)

\* a result of n is taken from the queue or a request is issued, and n had
\* a failed sub-request processed before: no request is added for n
NoRequestAfterFailure ==
    \A n \in DOMAIN archives :
        (\E k \in DOMAIN jobs[n] : jobs[n][k].status = "failed")
            => Len(jobs'[n]) = Len(jobs[n])

\* C30: once the first failed sub-request of an archive has been processed,
\* no further byte-range request is initiated for that archive; the other
\* archives are still requested in full: when the generator returns, every
\* archive without a failed sub-request is covered by its requests.
C30_FailedArchiveSkipped ==
    /\ [][NoRequestAfterFailure]_vars
    /\ [](dl = "returned" =>
            \A m \in DOMAIN archives :
                (archives[m].found
                   /\ \A k \in DOMAIN jobs[m] : jobs[m][k].status # "failed")
                => Covered(m))

\* C30 witness: the generator returned; the first archive had its first
\* sub-request fail while it was still the current item, so the rest of it
\* was never requested, and the archive after it was requested in full.
C30_Witness ==
    /\ dl = "returned"
    /\ \E n \in DOMAIN archives, m \in DOMAIN archives :
         /\ n < m
         /\ jobs[n] # <<>>
         /\ jobs[n][1].status = "failed"
         /\ ~Covered(n)
         /\ Covered(m)
         /\ \A k \in DOMAIN jobs[m] : jobs[m][k].status = "ok"

\* the tar stream ends before all bytes of the entry were delivered
Truncated == coda.pc # "off" /\ coda.avail < Len(coda.data)

\* C21: when the tar stream ends inside a regular-file entry, wherever it
\* ends, update_file never completes for the entry and update_dir raises
\* DumpError: once every delivered byte is consumed the next read raises;
\* the mirror file then still is what it was when the update began (the
\* previous complete content, or no file), nothing was renamed over it and
\* no temporary file is left.
C21_TruncatedNeverReplaces ==
    Truncated =>
        /\ coda.pc \in {"entry", "reading", "ReadError", "DumpError"}
        /\ (coda.pc = "reading" /\ coda.pos = coda.avail)
             => (coda.short = "raise"
                 \/ PrematureEof(coda.remaining, StreamRead(coda, BlockSize), FALSE))
        /\ coda.pc # "entry" => (uf.path = old /\ uf.renames = 0 /\ uf.state # "closed")
        /\ coda.pc \in {"ReadError", "DumpError"}
             => (uf.state = "aborted" /\ ~uf.tmp.exists /\ uf.coroutine = "None")

\* C21 witness: DumpError was raised after a truncated entry had delivered
\* bytes that differ from the existing file, so that a temporary file had
\* been started; the existing file has its old content.
C21_Witness ==
    /\ Truncated
    /\ coda.pc = "DumpError"
    /\ coda.kind = "file"
    /\ coda.pos > 0
    /\ uf.temps = 1
    /\ uf.path = old
    /\ Len(old.data) > 0

\* the encryption the local settings ask for
LocalEncryption == IF unp.recipients THEN "gpg" ELSE "none"

\* C22: unpack never starts tar on unverified input.  An archive whose
\* recorded encryption differs from the local setting is refused by the
\* encryption check itself; tar is started for a gpg archive only when gpg
\* exited 0 and a GOODSIG or VALIDSIG status line named the configured
\* signing key, and for an unencrypted archive only when the SHA-256 of
\* the file equals the recorded hash.
C22_TarOnlyVerified ==
    unp.pc = "done" =>
        /\ unp.xattrs.encryption.v # LocalEncryption
             => unp.outcome = "ValueError: encryption"
        /\ unp.outcome = "tar" =>
             /\ unp.xattrs.encryption.v = LocalEncryption
             /\ LocalEncryption = "gpg" =>
                  /\ unp.gpg_exit = 0
                  /\ \E words \in unp.status :
                       /\ Len(words) >= 3
                       /\ words[2] \in {"GOODSIG", "VALIDSIG"}
                       /\ Lower(words[3]) = Lower(unp.signing_key)
             /\ LocalEncryption = "none" => unp.hash = unp.xattrs.sha256.v

\* C22 witness: with gpg configured, an archive whose encryption attribute
\* says "none" and whose recorded hash matches its content was refused.
C22_Witness ==
    /\ unp.pc = "done"
    /\ unp.recipients
    /\ unp.xattrs.encryption.v = "none"
    /\ unp.xattrs.sha256.v = unp.hash
    /\ unp.xattrs.compression.v = "gzip"
    /\ unp.outcome = "ValueError: encryption"

\* C26: PhysicalSnapshot.list() returns the snapshots in chronological
\* order, ascending by date and within one date ascending by numeric
\* revision, so that its last element is the newest snapshot.
C26_ListChronological ==
    plist.pc = "done" =>
        \A i \in DOMAIN plist.ret, j \in DOMAIN plist.ret :
            i < j => (plist.ret[i].date < plist.ret[j].date
                      \/ (plist.ret[i].date = plist.ret[j].date
                          /\ plist.ret[i].revision < plist.ret[j].revision))

\* C31: user.coda.incremental-ok is on the unit root only if the most
\* recent full backup of the unit ran to completion, and a run dumps
\* incrementally only then: a run that follows a failed full backup is a
\* full one whatever was requested, and the attribute is not there while it
\* runs.
C31_IncrementalOnlyAfterFull ==
    /\ csync.pc # "off" =>
         /\ csync.attr => csync.last_full = "ok"
         /\ (csync.pc \notin {"idle"} /\ csync.incremental) => csync.last_full = "ok"
         /\ (csync.pc \notin {"idle"} /\ csync.after_failed) => ~csync.incremental

\* C31 witness: a run for which an incremental was requested began after a
\* failed full backup, made a full dump and completed.
C31_Witness ==
    /\ csync.pc = "done"
    /\ csync.requested
    /\ csync.after_failed
    /\ ~csync.incremental
    /\ csync.attr
    /\ csync.last_full = "ok"

\* C32 as claimed: whatever the policy windows, every snapshot whose date is
\* newer than today minus duplicate_days is retained.
C32_RecentKept ==
    pruned # "no" =>
        \A x \in listed : x.date > DuplicateThresh(settings, today) => x \notin remove

\* C32 as amended: every snapshot whose date is newer than today minus
\* duplicate_days and newer than today minus 7 * daily_weeks is retained,
\* all its intra-day revisions included.
C32_RecentDailyKept ==
    pruned # "no" =>
        \A x \in listed :
            (x.date > DuplicateThresh(settings, today)
               /\ x.date > DailyThresh(settings, today))
            => x \notin remove

\* C32 witness: after a prune, two revisions of one recent day that is not
\* the oldest day are both still there.
C32_Witness ==
    /\ pruned = "yes"
    /\ \E x \in snapshots, y \in snapshots :
         /\ x.date = y.date /\ x.revision < y.revision
         /\ x.date > DuplicateThresh(settings, today)
         /\ x.date > DailyThresh(settings, today)
         /\ x.date # Oldest(listed).date

\* the last k elements of a sequence (all of it when it is shorter)
LastK(q, k) == {q[i] : i \in {j \in DOMAIN q : j > Len(q) - k}}

\* the sets that are to remain: the keep_count most recent complete sets,
\* the most recent set of all, the protected sets
ToRemain(meta, keep_count) ==
    LET names == SortedNames(DOMAIN meta)
    IN  LastK(SelectSeq(names, LAMBDA n : meta[n].complete), keep_count)
        \cup LastK(names, 1)
        \cup {n \in DOMAIN meta : meta[n].protected}

\* C33: after prune_archives, for any keep-count >= 0 and any list of sets,
\* the sets that remain are exactly the keep-count most recent complete
\* sets, the most recent set of all (complete or not) and the protected
\* sets; every other set has been deleted.
C33_ExactlyKeepCount ==
    parch.pc = "done" => DOMAIN parch.sets = ToRemain(parch.before, parch.keep_count)

\* the new data the coroutine has been sent so far
Consumed == SubSeq(written, 1, Len(written) - Len(uf.buf))

\* C34: with an old file in place, as long as the new data sent so far
\* agrees with it, no temporary file was created and nothing was written;
\* the temporary file is created only at the first block in which old and
\* new differ or where one of them ends first; while it is being written it
\* holds exactly the leading whole blocks that compared equal, as the old
\* file has them, followed by the new data from that block onward.
C34_TempAtFirstMismatch ==
    (uf.state \in {"open", "closed"} /\ old.exists) =>
        LET ob == ReadOld(uf.prefix_len)
            upto == uf.prefix_len + Len(ob)
        IN  /\ uf.temps <= 1
            /\ uf.prefix_len % BlockSize = 0 \/ uf.prefix_len = Len(old.data)
            /\ Take(Consumed, uf.prefix_len) = Take(old.data, uf.prefix_len)
            /\ uf.temps = 0 =>
                  /\ ~uf.tmp.exists
                  /\ uf.path = old
                  /\ uf.renames = 0
            /\ uf.temps = 1 =>
                  \/ Take(Consumed, upto) # Take(old.data, upto)
                  \/ ob = <<>> /\ Len(Consumed) > uf.prefix_len
            /\ uf.tmp.exists =>
                  /\ uf.temps = 1
                  /\ uf.tmp.data = Take(old.data, uf.prefix_len)
                                       \o Drop(Consumed, uf.prefix_len)

\* C34 witness: the first block compared equal, the second differed; the
\* temporary file holds the first block of the old file, the differing
\* block and more new data, and is not renamed yet.
C34_Witness ==
    /\ uf.state = "open"
    /\ old.exists
    /\ uf.prefix_len = BlockSize
    /\ uf.tmp.exists
    /\ Len(uf.tmp.data) > 2 * BlockSize - 1
    /\ Len(old.data) >= 2 * BlockSize
    /\ uf.path = old

(***************************************************************************)
(* Claims about run and the snapshot, under SpecRun                        *)
(***************************************************************************)
\* C35: the snapshot is created only after every worker of every source
\* pool has finished: when the snapshot is taken no thread of any task is
\* alive, no unit is executing and no unit is still queued.
C35_NothingPendingAtSnapshot ==
    run.snapshots > 0 =>
        \A s \in Sources :
            /\ thread[s].created = 0
            /\ thread[s].loop = 0
            /\ Running(s) = {}
            /\ queue[s] = <<>>

(***************************************************************************)
(* Claims about download_archives and its quota, under SpecRetrieveFair    *)
(***************************************************************************)
\* every archive of archive_list has been yielded
AllYielded ==
    \A n \in DOMAIN archives : \E i \in DOMAIN yielded : yielded[i].name = n

\* C36: download_archives terminates after yielding a result for every
\* requested archive, whatever the archive sizes (0 included) and whatever
\* max_rate > 0 (rates below one download quantum included), when every
\* initiated job completes and no other instance consumes the quota.
C36_Terminates == <>(dl = "returned" /\ AllYielded)

(***************************************************************************)
(* Claims about kills and leftovers of backup_image, under SpecRbd         *)
(***************************************************************************)
\* the positions inside apply_patch_and_rebase after the diff was
\* unpacked, after the old snapshot was deleted, after user.rbd.snapshot
\* was rewritten, and after the pending attribute was deleted
InsideApply == {"delete", "rotate", "unset", "unlink"}

\* C37: when a run was killed inside apply_patch_and_rebase, the next run
\* of backup_image (with nothing going wrong outside the code) succeeds
\* and ends with user.rbd.snapshot naming a snapshot that exists on the
\* source, no pending-snapshot attribute and no .pending file.
C37_NextRunRecovers ==
    (rb.resumes \in InsideApply /\ ~rb.hindered /\ rb.pc \in {"done", "raised"}) =>
        /\ rb.pc = "done"
        /\ mirror.exists
        /\ mirror.snapshot # 0
        /\ owner[mirror.snapshot] = "img"
        /\ mirror.pending = 0
        /\ ~pendfile.exists

\* C38: whenever backup_image has returned or raised (no run having been
\* killed), every backup snapshot of the image that exists on the source
\* is named by user.rbd.snapshot or user.rbd.pending-snapshot of the
\* mirror file.
C38_NoUnreferencedSnapshot ==
    (rb.pc \in {"done", "raised"} /\ ~rb.killed) =>
        \A n \in RbdSnaps :
            owner[n] = "img" => (mirror.exists /\ n \in {mirror.snapshot, mirror.pending})

(***************************************************************************)
(* Claims about resync, under SpecResync                                   *)
(***************************************************************************)
\* every upload_archive call has returned or raised, and resync and
\* delete_set are not in the middle of their work
ResyncQuiet ==
    /\ \A u \in DOMAIN up : up[u] \in {"done", "raised", "reraised"}
    /\ rs.pc \in {"idle", "done"}
    /\ rs.ds \in {"idle", "done"}

\* C39: after any interleaving of upload_archive, delete_set and resync
\* the metadata record refers to an archive the vault still has: resync
\* deleted no archive that has a record or that an upload in progress was
\* about to write the record of.
C39_RecordsHaveArchives ==
    ResyncQuiet => (item # 0 => item \in vault)

(***************************************************************************)
(* Claims about PhysicalSnapshot.create, under SpecCreate                  *)
(***************************************************************************)
\* C40: the snapshot PhysicalSnapshot.create made sorts after every
\* snapshot that existed when it was created: it is the newest by date and
\* revision and the last element of list(), also when earlier revisions
\* of today had been removed and left gaps.
C40_CreatedIsNewest ==
    (plist.pc = "done" /\ plist.created # <<>>) =>
        /\ plist.ret[Len(plist.ret)].name = plist.created
        /\ \A l \in plist.before :
              /\ __lt__(PhysicalSnapshot(l.vg, l.lv), PhysicalSnapshot(0, plist.created))
              /\ ByDateAndRevision(PhysicalSnapshot(l.vg, l.lv),
                                   PhysicalSnapshot(0, plist.created))

====
